---------------------------- MODULE Spec2Model ----------------------------
(***************************************************************************)
(* Model of the token-agent lifecycle engine: the token cache, the refresh *)
(* loop with its retry engine, the expiry sweeper, the notification bus    *)
(* and the file / uds sink consumers, together with the pure algorithms    *)
(* (DAG builder, retry engine, retry validation) checked on their own      *)
(* specifications.                                                         *)
(***************************************************************************)
EXTENDS Integers, Sequences, FiniteSets, TLC

VARIABLES
    \* ---- running system (Spec, SpecSink) ----
    conf,         \* the loaded ServiceConfig and the SourceDag built from it
    now,          \* wall clock, unix seconds (chrono::Utc::now().timestamp())
    cache,        \* TokenCache.inner: source_id -> token_id -> TokenContext
    refresh,      \* the task spawned by loop_refrech_tokens
    sweeper,      \* the task spawned by loop_check_token_exp
    bus,          \* broadcast channel, one entry per receiver
    memoFile,     \* SinkFileCache.inner
    memoUds,      \* SinkUdsCache.inner
    paths,        \* what was last written to each sink path
    sinkLog,      \* history: per sink, what its last processed notification saw and did
    pubMon,       \* history: were notifications sent after or before their cache write
    due,          \* history: tokens found due to evict by the running sweeper pass
    \* ---- the pure algorithms (SpecDag, SpecRetry, SpecCfg, SpecCache) ----
    call          \* the call under check: its inputs, its progress, its result

sysVars == <<conf, now, cache, refresh, sweeper, bus, memoFile, memoUds,
             paths, sinkLog, pubMon, due>>
vars == <<sysVars, call>>

-----------------------------------------------------------------------------
(* Bounds of the model *)

\* last second of the modelled clock
MaxTime == 2
\* largest absolute expiry an issuer hands out
MaxExp == 3
\* retained messages per receiver (BUFFER_SIZE scaled down)
BusCap == 2
\* stand-in for 2^64: TLC integers are 32 bit; every modelled time stamp is far below it
WordModulus == 65536

-----------------------------------------------------------------------------
(* Option<T> *)

None == [some |-> FALSE, v |-> 0]
Some(x) == [some |-> TRUE, v |-> x]
\* Option::or
OptOr(a, b) == IF a.some THEN a ELSE b

(* u64 / i64 arithmetic *)

AsU64(x) == x % WordModulus
AsI64(x) == IF (x % WordModulus) >= WordModulus \div 2
            THEN (x % WordModulus) - WordModulus ELSE x % WordModulus
I64Max == WordModulus \div 2 - 1

Min(a, b) == IF a <= b THEN a ELSE b
Max(a, b) == IF a >= b THEN a ELSE b

(* HashMap helpers *)

EmptyMap == [x \in {} |-> 0]
MapPut(m, k, v) == [x \in (DOMAIN m) \cup {k} |-> IF x = k THEN v ELSE m[x]]
MapRemove(m, k) == [x \in (DOMAIN m) \ {k} |-> m[x]]
Range(s) == {s[i] : i \in DOMAIN s}

-----------------------------------------------------------------------------
(* Configurations of the running system *)

Settings == [safety_margin_seconds |-> Some(2),
             retry |-> Some([attempts |-> Some(2),
                             base_delay_ms |-> None, max_delay_ms |-> None])]

\* TokenField: id, parent, token_type, expiration {source, format, manual_ttl_seconds}
TokA1 == [id |-> "a1", parent |-> "body", token_type |-> "jwt",
          exp_source |-> "self", exp_format |-> "unix", manual_ttl_seconds |-> 0]
TokB1 == [id |-> "b1", parent |-> "body", token_type |-> "plain_text",
          exp_source |-> "json_body_field", exp_format |-> "unix", manual_ttl_seconds |-> 0]
TokB2 == [id |-> "b2", parent |-> "header", token_type |-> "plain_text",
          exp_source |-> "manual", exp_format |-> "seconds", manual_ttl_seconds |-> 2]

\* SourceConfig: inputs, safety_margin_seconds, parse.tokens, and the (source, token)
\* pairs its request reads through GenericSourceValue::Ref
SrcA == [inputs |-> None, safety_margin_seconds |-> Some(1),
         tokens |-> <<TokA1>>, refs |-> {}]
SrcB == [inputs |-> Some(<<"A">>), safety_margin_seconds |-> None,
         tokens |-> <<TokB1, TokB2>>, refs |-> {<<"A", "a1">>}]
\* a source of its own with one plain_text token
SrcBAlone == [inputs |-> None, safety_margin_seconds |-> None,
              tokens |-> <<TokB1>>, refs |-> {}]

\* SinkConfig: sink_id, sink_type, source_id, token_id, path
SinkF1 == [sink_id |-> "f1", sink_type |-> "file", source_id |-> "B",
           token_id |-> "b1", path |-> "/f1"]
SinkU1 == [sink_id |-> "u1", sink_type |-> "uds", source_id |-> "B",
           token_id |-> "b1", path |-> "/u1"]

\* two chained sources, no file or uds sink
ConfChain == [sources |-> [A |-> SrcA, B |-> SrcB], sinks |-> {},
              values |-> [a1 |-> {"v1"}, b1 |-> {"w1"}, b2 |-> {"x1"}]]
\* one source, a file sink and a uds sink on its token
ConfSinks == [sources |-> [B |-> SrcBAlone], sinks |-> {SinkF1, SinkU1},
              values |-> [b1 |-> {"w1"}]]

\* two sources of their own, each with a plain_text token of manual ttl and a file sink
TokA2 == [id |-> "a2", parent |-> "header", token_type |-> "plain_text",
          exp_source |-> "manual", exp_format |-> "seconds", manual_ttl_seconds |-> 2]
SrcA2 == [inputs |-> None, safety_margin_seconds |-> None, tokens |-> <<TokA2>>, refs |-> {}]
SrcB2 == [inputs |-> None, safety_margin_seconds |-> None, tokens |-> <<TokB2>>, refs |-> {}]
SinkFA == [sink_id |-> "fa", sink_type |-> "file", source_id |-> "A",
           token_id |-> "a2", path |-> "/fa"]
SinkFB == [sink_id |-> "fb", sink_type |-> "file", source_id |-> "B",
           token_id |-> "b2", path |-> "/fb"]
ConfBus == [sources |-> [A |-> SrcA2, B |-> SrcB2], sinks |-> {SinkFA, SinkFB},
            values |-> [a2 |-> {"y1"}, b2 |-> {"x1"}]]

Sources == conf.sources
SourceIds == DOMAIN Sources
SinkCfgs == conf.sinks
SinkIds == {k.sink_id : k \in SinkCfgs}
SinkOf(id) == CHOOSE k \in SinkCfgs : k.sink_id = id

\* token values an issuer may return for a token id
TokenValues(tid) == conf.values[tid]

TOKEN_VALUE_STUB == ""

-----------------------------------------------------------------------------
(* helpers/time.rs *)

SAFETY_MARGIN_SECONDS_SOURCE_DEFAULT == 10

get_token_safety_margin_seconds(safety_margin_seconds_settings, safety_margin_seconds_source) ==
    OptOr(OptOr(safety_margin_seconds_source, safety_margin_seconds_settings),
          Some(SAFETY_MARGIN_SECONDS_SOURCE_DEFAULT)).v

\* the margin parse_tokens and the sweeper use for a source of the configuration
SourceMargin(sid) ==
    get_token_safety_margin_seconds(Settings.safety_margin_seconds,
                                    Sources[sid].safety_margin_seconds)

-----------------------------------------------------------------------------
(* cache/token_context.rs *)

TokenContextNew(id, value, exp_unix_ts, safety_margin_seconds) ==
    LET d == AsI64(exp_unix_ts) - AsI64(safety_margin_seconds)
        fetched_at_unix_ts == IF d < 0 THEN 0 ELSE d
    IN [id |-> id, value |-> value, exp_unix_ts |-> exp_unix_ts,
        fetched_at_unix_ts |-> AsU64(fetched_at_unix_ts)]

\* a record that is due only after its refetch time has passed
should_update_after(tc, t) == AsU64(t) > tc.fetched_at_unix_ts
should_update(tc, t) == AsU64(t) >= tc.fetched_at_unix_ts

\* exp_unix_ts - 1 on u64: overflows for exp_unix_ts = 0
SubOverflows(tc) == tc.exp_unix_ts < 1
should_remove_at(tc) == AsI64(AsU64(tc.exp_unix_ts - 1))
should_remove(tc, t) == AsU64(t) >= AsU64(should_remove_at(tc))

-----------------------------------------------------------------------------
(* cache/token_cache.rs *)

RECURSIVE SetFold(_, _, _)
\* the for_each of TokenCache::set: replace an existing entry, insert a new one
SetFold(source_map, recs, i) ==
    IF i > Len(recs) THEN source_map
    ELSE SetFold(MapPut(source_map, recs[i].id, recs[i]), recs, i + 1)

RECURSIVE SetFold_removeExisting(_, _, _)
\* the for_each with an arm for an existing entry that removes it
SetFold_removeExisting(source_map, recs, i) ==
    IF i > Len(recs) THEN source_map
    ELSE SetFold_removeExisting(
             IF recs[i].id \in DOMAIN source_map
             THEN MapRemove(source_map, recs[i].id)
             ELSE MapPut(source_map, recs[i].id, recs[i]),
             recs, i + 1)

\* TokenCache::set whose arm for an existing entry removes it
TokenCacheSet_removeExisting(c, source_id, recs) ==
    LET source_map == IF source_id \in DOMAIN c THEN c[source_id] ELSE EmptyMap
    IN [cache |-> MapPut(c, source_id, SetFold_removeExisting(source_map, recs, 1)),
        updated |-> [i \in 1..Len(recs) |-> recs[i].id]]

\* TokenCache::set that drops the records the input does not name
TokenCacheSet_replaceAll(c, source_id, recs) ==
    [cache |-> MapPut(c, source_id, SetFold(EmptyMap, recs, 1)),
     updated |-> [i \in 1..Len(recs) |-> recs[i].id]]

TokenCacheSet(c, source_id, recs) ==
    LET source_map == IF source_id \in DOMAIN c THEN c[source_id] ELSE EmptyMap
    IN [cache |-> MapPut(c, source_id, SetFold(source_map, recs, 1)),
        updated |-> [i \in 1..Len(recs) |-> recs[i].id]]

TokenCacheGet(c, source_id, token_id) ==
    IF source_id \in DOMAIN c /\ token_id \in DOMAIN c[source_id]
    THEN Some(c[source_id][token_id]) ELSE None

contains_source_id(c, source_id) == source_id \in DOMAIN c

\* an eviction that trusts the sweeper's earlier read: every record of the source goes
InvalidateExpired_all(c, source_id, t) ==
    IF source_id \notin DOMAIN c THEN [cache |-> c, found |-> FALSE]
    ELSE [cache |-> [c EXCEPT ![source_id] = EmptyMap], found |-> TRUE]

\* invalidate_expired_tokens_by_source_id: retain(!should_remove)
InvalidateExpired(c, source_id, t) ==
    IF source_id \notin DOMAIN c THEN [cache |-> c, found |-> FALSE]
    ELSE LET keep == {tid \in DOMAIN c[source_id] : ~should_remove(c[source_id][tid], t)}
         IN [cache |-> [c EXCEPT ![source_id] = [tid \in keep |-> c[source_id][tid]]],
             found |-> TRUE]

\* retain() evaluates should_remove on every entry: the subtraction overflows on one
InvalidateOverflows(c, source_id) ==
    source_id \in DOMAIN c /\ \E tid \in DOMAIN c[source_id] : SubOverflows(c[source_id][tid])

-----------------------------------------------------------------------------
(* sources/builder_in_order.rs: SourceDag::build *)

RECURSIVE visit(_, _, _)
RECURSIVE visitDeps(_, _, _, _, _)

\* the for loop that passes over an input naming no source
visitDeps_skipUnknown(key, inputs, i, srcs, st) ==
    IF st.err # "" \/ i > Len(inputs) THEN st
    ELSE IF inputs[i] \notin DOMAIN srcs
         THEN visitDeps(key, inputs, i + 1, srcs, st)
         ELSE visitDeps(key, inputs, i + 1, srcs, visit(inputs[i], srcs, st))

\* the for loop over the inputs of `key`, from its i-th entry on
visitDeps(key, inputs, i, srcs, st) ==
    IF st.err # "" \/ i > Len(inputs) THEN st
    ELSE IF inputs[i] \notin DOMAIN srcs
         THEN [st EXCEPT !.err = "Unknown dependency"]
         ELSE visitDeps(key, inputs, i + 1, srcs, visit(inputs[i], srcs, st))

\* st = [visited, temp, order, err]; err # "" once an Err was returned
visit(key, srcs, st) ==
    IF st.err # "" THEN st
    ELSE IF key \in st.visited THEN st
    ELSE IF key \in st.temp THEN [st EXCEPT !.err = "Cycle detected"]
    ELSE LET st1 == [st EXCEPT !.temp = @ \cup {key}]
             st2 == IF key \in DOMAIN srcs /\ srcs[key].inputs.some
                    THEN visitDeps(key, srcs[key].inputs.v, 1, srcs, st1)
                    ELSE st1
         IN IF st2.err # "" THEN st2
            ELSE [st2 EXCEPT !.temp = @ \ {key},
                             !.visited = @ \cup {key},
                             !.order = Append(@, key)]

RECURSIVE visitKeys(_, _, _, _)
\* `for k in sources.keys()`: keys is the iteration order of the HashMap
visitKeys(keys, i, srcs, st) ==
    IF st.err # "" \/ i > Len(keys) THEN st
    ELSE visitKeys(keys, i + 1, srcs, visit(keys[i], srcs, st))

\* SourceDag::build that returns the sources in the iteration order of the map
build_keyOrder(srcs, keys) ==
    LET st == visitKeys(keys, 1, srcs,
                        [visited |-> {}, temp |-> {}, order |-> <<>>, err |-> ""])
    IN [ok |-> st.err = "", err |-> st.err,
        ordered |-> IF st.err = "" THEN keys ELSE <<>>]

\* SourceDag::build: [ok, err, ordered]
build(srcs, keys) ==
    LET st == visitKeys(keys, 1, srcs,
                        [visited |-> {}, temp |-> {}, order |-> <<>>, err |-> ""])
    IN [ok |-> st.err = "", err |-> st.err,
        ordered |-> IF st.err = "" THEN SelectSeq(st.order, LAMBDA id : id \in DOMAIN srcs)
                    ELSE <<>>]

\* SourceDag.ordered: the order the two loops of the running system walk
Ordered == conf.ordered

-----------------------------------------------------------------------------
(* parser/parser.rs, on a response reduced to what each token field reads:   *)
(* the field's string value and the number its expiry is taken from          *)

NoField == [present |-> FALSE, value |-> "", exp |-> 0]

\* the expiry readings of a response: a jwt's exp claim, or the u64 of the body field
\* of a plain_text token, which can be anything up to u64::MAX
ExpReadings(tf) ==
    IF tf.exp_source = "manual" THEN {0}
    ELSE IF tf.token_type = "jwt" THEN 0..MaxExp
    ELSE 0..MaxExp \cup {WordModulus - 1}

\* the readings an issuer's response can give for a token field
RespField(tf) ==
    {NoField} \cup
    {[present |-> TRUE, value |-> v, exp |-> e] :
        v \in TokenValues(tf.id), e \in ExpReadings(tf)}

Responses(sid) ==
    LET ids == {tf.id : tf \in Range(Sources[sid].tokens)}
        tfOf(id) == CHOOSE tf \in Range(Sources[sid].tokens) : tf.id = id
        all == UNION {RespField(tfOf(id)) : id \in ids}
    IN {r \in [ids -> all] : \A id \in ids : r[id] \in RespField(tfOf(id))}

\* get_jwt_token_expiration
get_jwt_token_expiration(field, t) ==
    IF field.exp <= AsU64(t) THEN None ELSE Some(field.exp)

\* get_plain_text_expiration
get_plain_text_expiration(tf, field, t) ==
    LET raw == IF tf.exp_source = "self" THEN None
               ELSE IF tf.exp_source = "manual" THEN Some(tf.manual_ttl_seconds)
               ELSE Some(field.exp)
    IN IF ~raw.some THEN None
       ELSE IF tf.exp_format = "seconds" THEN Some(AsU64(AsU64(t) + raw.v))
       ELSE Some(raw.v)

\* parse_header_token / parse_body_token
parse_token(tf, field, t, safety_margin) ==
    IF ~field.present THEN None
    ELSE LET expiration == IF tf.token_type = "jwt"
                           THEN get_jwt_token_expiration(field, t)
                           ELSE get_plain_text_expiration(tf, field, t)
         IN IF ~expiration.some THEN None
            ELSE Some(TokenContextNew(tf.id, field.value, expiration.v, safety_margin))

RECURSIVE parse_each(_, _, _, _, _)
parse_each(tfs, i, resp, t, margin) ==
    IF i > Len(tfs) THEN <<>>
    ELSE LET r == parse_token(tfs[i], resp[tfs[i].id], t, margin)
         IN (IF r.some THEN <<r.v>> ELSE <<>>) \o parse_each(tfs, i + 1, resp, t, margin)

\* parse_tokens: header tokens first, then body tokens; a failing token is left out
parse_tokens(resp, tokens, safety_margin_settings, safety_margin_source, t) ==
    LET safety_margin == get_token_safety_margin_seconds(safety_margin_settings,
                                                         safety_margin_source)
    IN parse_each(SelectSeq(tokens, LAMBDA tf : tf.parent = "header"), 1, resp, t, safety_margin)
       \o parse_each(SelectSeq(tokens, LAMBDA tf : tf.parent = "body"), 1, resp, t, safety_margin)

-----------------------------------------------------------------------------
(* utils/channel.rs and tokio::sync::broadcast, seen from each receiver *)

Receivers == {"file", "uds"}

\* Sender::send: every subscribed receiver gets the message; a receiver that already
\* holds BusCap messages loses its oldest one and will see Lagged on its next recv
BusSend(b, msg) ==
    [r \in Receivers |->
        IF ~b[r].subscribed THEN b[r]
        ELSE IF Len(b[r].q) >= BusCap
             THEN [b[r] EXCEPT !.q = Append(Tail(@), msg), !.lagged = TRUE]
             ELSE [b[r] EXCEPT !.q = Append(@, msg)]]

\* the tx.send of either loop. pubMon[by] turns "early" for good when the sender still
\* holds records it fetched and has not stored (refresh) or has not called the
\* invalidation it decided on (sweeper), and else "afterWrite" when the sender has
\* written to the cache for this source
Publish(by, source_id) ==
    /\ bus' = BusSend(bus, source_id)
    /\ pubMon' =
          [pubMon EXCEPT ![by] =
              IF @ = "early" THEN "early"
              ELSE IF by = "refresh" /\ refresh.fetched.ok THEN "early"
              ELSE IF by = "sweeper" /\ sweeper.pc = "invalidate" THEN "early"
              ELSE IF by = "sweeper" \/ refresh.stored.ok THEN "afterWrite"
              ELSE @]

-----------------------------------------------------------------------------
(* sinks/sink_file_cache.rs, sinks/sink_uds_cache.rs *)

SinkMemoGet(memo, source_id, token_id) ==
    IF source_id \in DOMAIN memo /\ token_id \in DOMAIN memo[source_id]
    THEN Some(memo[source_id][token_id]) ELSE None

\* a memo that keeps what set is given: the entry is inserted, under a map created
\* when the source has none
SinkMemoSet_keep(memo, source_id, token_id, meta) ==
    LET mapped == IF source_id \in DOMAIN memo THEN memo
                  ELSE MapPut(memo, source_id, EmptyMap)
    IN [mapped EXCEPT ![source_id] = MapPut(@, token_id, meta)]

\* SinkFileCache::set / SinkUdsCache::set: get_mut(..).map(insert), then the argument of
\* unwrap_or, which is evaluated in every case: guard.insert(source_id, HashMap::new())
SinkMemoSet(memo, source_id, token_id, meta) ==
    LET mapped == IF source_id \in DOMAIN memo
                  THEN [memo EXCEPT ![source_id] = MapPut(@, token_id, meta)]
                  ELSE memo
    IN MapPut(mapped, source_id, EmptyMap)

SinkMemoRemove(memo, source_id, token_id) ==
    IF source_id \in DOMAIN memo
    THEN [memo EXCEPT ![source_id] = MapRemove(@, token_id)]
    ELSE memo

-----------------------------------------------------------------------------
(* sinks/sink_file.rs, sinks/sink_uds.rs: what one sink does with one message *)

\* check_if_token_should_be_skipped
check_if_token_should_be_skipped(memo, source_id, tc) ==
    LET m == SinkMemoGet(memo, source_id, tc.id)
    IN m.some /\ m.v.exp = tc.exp_unix_ts

\* the body of the for loop for sink cfg and message source_id, on st = [memo, paths, log].
\* log[sink_id] keeps the record this sink saw last and whether it wrote it; twice
\* turns TRUE for good when the sink writes a record it saw and wrote one message before
SinkStep(cfg, source_id, c, st) ==
    LET token_context_opt == TokenCacheGet(c, cfg.source_id, cfg.token_id)
        last == st.log[cfg.sink_id]
    IN IF token_context_opt.some
       THEN IF check_if_token_should_be_skipped(st.memo, source_id, token_context_opt.v)
            THEN [st EXCEPT !.log[cfg.sink_id] =
                        [rec |-> token_context_opt, wrote |-> FALSE, twice |-> last.twice]]
            ELSE [memo |-> SinkMemoSet(st.memo, source_id, token_context_opt.v.id,
                                       [exp |-> token_context_opt.v.exp_unix_ts,
                                        path |-> cfg.path]),
                  paths |-> [st.paths EXCEPT ![cfg.path] = Some(token_context_opt.v.value)],
                  log |-> [st.log EXCEPT ![cfg.sink_id] =
                              [rec |-> token_context_opt, wrote |-> TRUE,
                               twice |-> \/ last.twice
                                         \/ last.wrote /\ last.rec = token_context_opt]]]
       ELSE [memo |-> SinkMemoRemove(st.memo, source_id, cfg.token_id),
             paths |-> [st.paths EXCEPT ![cfg.path] = Some(TOKEN_VALUE_STUB)],
             log |-> [st.log EXCEPT ![cfg.sink_id] =
                         [rec |-> None, wrote |-> FALSE, twice |-> last.twice]]]

RECURSIVE SinkLoop(_, _, _, _, _)
\* `for (_, cfg) in sinks.iter()`: order is the iteration order of the HashMap,
\* selected tells which sinks pass the `continue` filter
SinkLoop(order, i, source_id, c, st) ==
    IF i > Len(order) THEN st
    ELSE SinkLoop(order, i + 1, source_id, c, SinkStep(order[i], source_id, c, st))

\* the sequences that list every element of set S once
Orders(S) == {o \in [1..Cardinality(S) -> S] : \A x \in S : \E i \in DOMAIN o : o[i] = x}

\* sink_http_worker passes file sinks of the message's source
FileSelected(source_id) ==
    {k \in SinkCfgs : ~(k.sink_type # "file" \/ k.source_id # source_id)}
\* start_uds_sinks passes every uds sink
UdsSelected(source_id) == {k \in SinkCfgs : ~(k.sink_type # "uds")}

\* rx.recv() returned Err(Lagged): the `if let Ok` is skipped
FileRecvLagged ==
    /\ bus.file.subscribed /\ bus.file.lagged
    /\ bus' = [bus EXCEPT !.file.lagged = FALSE]
    /\ UNCHANGED <<call, conf, now, cache, refresh, sweeper, memoFile, memoUds,
                   paths, sinkLog, pubMon, due>>

\* sink_http_worker: one message received and handled
FileWorker ==
    /\ bus.file.subscribed /\ ~bus.file.lagged /\ bus.file.q # <<>>
    /\ LET source_id == Head(bus.file.q) IN
       \E order \in Orders(FileSelected(source_id)) :
          LET st == SinkLoop(order, 1, source_id, cache,
                             [memo |-> memoFile, paths |-> paths, log |-> sinkLog])
          IN /\ memoFile' = st.memo
             /\ paths' = st.paths
             /\ sinkLog' = st.log
    /\ bus' = [bus EXCEPT !.file.q = Tail(@)]
    /\ UNCHANGED <<call, conf, now, cache, refresh, sweeper, memoUds, pubMon, due>>

UdsRecvLagged ==
    /\ bus.uds.subscribed /\ bus.uds.lagged
    /\ bus' = [bus EXCEPT !.uds.lagged = FALSE]
    /\ UNCHANGED <<call, conf, now, cache, refresh, sweeper, memoFile, memoUds,
                   paths, sinkLog, pubMon, due>>

\* start_uds_sinks: one message received and handled
UdsWorker ==
    /\ bus.uds.subscribed /\ ~bus.uds.lagged /\ bus.uds.q # <<>>
    /\ LET source_id == Head(bus.uds.q) IN
       \E order \in Orders(UdsSelected(source_id)) :
          LET st == SinkLoop(order, 1, source_id, cache,
                             [memo |-> memoUds, paths |-> paths, log |-> sinkLog])
          IN /\ memoUds' = st.memo
             /\ paths' = st.paths
             /\ sinkLog' = st.log
    /\ bus' = [bus EXCEPT !.uds.q = Tail(@)]
    /\ UNCHANGED <<call, conf, now, cache, refresh, sweeper, memoFile, pubMon, due>>

\* SinkManager::start_active_sinks: both receivers subscribe, a worker is spawned for
\* each sink type in use (the receiver of an unused type is never read: not tracked)
StartActiveSinks ==
    /\ \A r \in Receivers : ~bus[r].subscribed
    /\ bus' = [r \in Receivers |->
                [bus[r] EXCEPT !.subscribed = \E k \in SinkCfgs : k.sink_type = r]]
    /\ UNCHANGED <<call, conf, now, cache, refresh, sweeper, memoFile, memoUds,
                   paths, sinkLog, pubMon, due>>

-----------------------------------------------------------------------------
(* sources/executor/token_fetch.rs: the task of loop_refrech_tokens *)

\* RetrySettings built at the top of loop_refrech_tokens
RetryDefaultAttempts == 3
RetryDefaultBase == 200
RetryDefaultMax == 1000
RetrySettingsOf(retryCfg) ==
    [attempts |-> IF retryCfg.some /\ retryCfg.v.attempts.some
                  THEN retryCfg.v.attempts.v ELSE RetryDefaultAttempts,
     base_delay_ms |-> IF retryCfg.some /\ retryCfg.v.base_delay_ms.some
                       THEN retryCfg.v.base_delay_ms.v ELSE RetryDefaultBase,
     max_delay_ms |-> IF retryCfg.some /\ retryCfg.v.max_delay_ms.some
                      THEN retryCfg.v.max_delay_ms.v ELSE RetryDefaultMax]

NoFetch == [ok |-> FALSE, recs |-> <<>>]
NoStore == [ok |-> FALSE, ids |-> <<>>]
NodeCount == Len(Ordered)

RECURSIVE RefreshTokens(_, _, _, _, _, _)
\* the inner for loop of a node: [sleep_until, should_fetch]
RefreshTokens(source_id, tokens, i, c, t, sleep_until) ==
    IF i > Len(tokens) THEN [sleep_until |-> sleep_until, should_fetch |-> FALSE]
    ELSE LET opt == TokenCacheGet(c, source_id, tokens[i].id)
             su == IF opt.some /\ AsI64(opt.v.fetched_at_unix_ts) < sleep_until
                   THEN AsI64(opt.v.fetched_at_unix_ts) ELSE sleep_until
         IN IF ~(opt.some /\ ~should_update(opt.v, t))
            THEN [sleep_until |-> t, should_fetch |-> TRUE]
            ELSE RefreshTokens(source_id, tokens, i + 1, c, t, su)

\* where the loop goes after node idx
RefreshAfterNode(idx) ==
    IF idx < NodeCount THEN [pc |-> "visit", idx |-> idx + 1]
    ELSE [pc |-> "sleep", idx |-> 1]

\* a declared token of source sid is absent from the cache or its record's refetch
\* time (fetched_at_unix_ts) is not after now
DueToFetch(sid) ==
    \E tf \in Range(Sources[sid].tokens) :
       LET opt == TokenCacheGet(cache, sid, tf.id)
       IN ~opt.some \/ opt.v.fetched_at_unix_ts <= now

\* a node is visited: decide should_fetch; c[should_fetch] is what a monitor kept in
\* call becomes
RefreshVisitWith(c) ==
    /\ refresh.pc = "visit"
    /\ LET source_id == Ordered[refresh.idx]
           r == RefreshTokens(source_id, Sources[source_id].tokens, 1, cache, now,
                              refresh.sleep_until)
           nxt == RefreshAfterNode(refresh.idx)
       IN /\ refresh' = IF r.should_fetch
                        THEN [refresh EXCEPT !.pc = "fetch", !.sleep_until = r.sleep_until,
                                             !.attempt = 1]
                        ELSE [refresh EXCEPT !.pc = nxt.pc, !.idx = nxt.idx,
                                             !.sleep_until = r.sleep_until]
          /\ call' = c[r.should_fetch]
    /\ UNCHANGED <<conf, now, cache, sweeper, bus, memoFile, memoUds, paths,
                   sinkLog, pubMon, due>>

KeepCall == [should_fetch \in BOOLEAN |-> call]
RefreshVisit == RefreshVisitWith(KeepCall)

\* Source::fetch_tokens: every Ref of the request resolves from the cache
RefsResolve(source_id, c) ==
    \A ref \in Sources[source_id].refs : TokenCacheGet(c, ref[1], ref[2]).some

\* one attempt of run_with_retry returns Ok: the request was built, answered 2xx, parsed
RefreshFetchOk ==
    /\ refresh.pc = "fetch"
    /\ LET source_id == Ordered[refresh.idx] IN
       /\ RefsResolve(source_id, cache)
       /\ \E resp \in Responses(source_id) :
            refresh' = [refresh EXCEPT
                !.pc = "store", !.attempt = 0,
                !.fetched = [ok |-> TRUE,
                             recs |-> parse_tokens(resp, Sources[source_id].tokens,
                                                   Settings.safety_margin_seconds,
                                                   Sources[source_id].safety_margin_seconds,
                                                   now)]]
    /\ UNCHANGED <<call, conf, now, cache, sweeper, bus, memoFile, memoUds, paths,
                   sinkLog, pubMon, due>>

\* the attempt returns Err and the task ends when no attempt is left
RefreshFetchErr_exit ==
    /\ refresh.pc = "fetch"
    /\ refresh' = IF refresh.attempt < RetrySettingsOf(Settings.retry).attempts
                  THEN [refresh EXCEPT !.attempt = @ + 1]
                  ELSE [refresh EXCEPT !.pc = "exited", !.attempt = 0]
    /\ UNCHANGED <<call, conf, now, cache, sweeper, bus, memoFile, memoUds, paths,
                   sinkLog, pubMon, due>>

\* one attempt returns Err (a Ref is absent, transport error, non-2xx): retry while
\* attempt < attempts, else give up; the loop goes on to its tx.send either way
RefreshFetchErr ==
    /\ refresh.pc = "fetch"
    /\ refresh' = IF refresh.attempt < RetrySettingsOf(Settings.retry).attempts
                  THEN [refresh EXCEPT !.attempt = @ + 1]
                  ELSE [refresh EXCEPT !.pc = "send", !.attempt = 0]
    /\ UNCHANGED <<call, conf, now, cache, sweeper, bus, memoFile, memoUds, paths,
                   sinkLog, pubMon, due>>

\* store_tokens_by_source_id: TokenCache::set
RefreshStore ==
    /\ refresh.pc = "store"
    /\ LET source_id == Ordered[refresh.idx]
           r == TokenCacheSet(cache, source_id, refresh.fetched.recs)
       IN /\ cache' = r.cache
          /\ refresh' = [refresh EXCEPT !.pc = "send",
                                        !.stored = [ok |-> TRUE, ids |-> r.updated],
                                        !.fetched = NoFetch]
          /\ due' = due \ {<<source_id, id>> : id \in Range(r.updated)}
    /\ UNCHANGED <<call, conf, now, sweeper, bus, memoFile, memoUds, paths,
                   sinkLog, pubMon>>

\* the notification is sent while the fetched records are not stored yet
RefreshSend_beforeStore ==
    /\ refresh.pc \in {"store", "send"}
    /\ Publish("refresh", Ordered[refresh.idx])
    /\ refresh' = IF refresh.pc = "send"
                  THEN [refresh EXCEPT !.pc = RefreshAfterNode(refresh.idx).pc,
                                       !.idx = RefreshAfterNode(refresh.idx).idx,
                                       !.stored = NoStore]
                  ELSE refresh
    /\ UNCHANGED <<call, conf, now, cache, sweeper, memoFile, memoUds, paths,
                   sinkLog, due>>

\* sink active propagation: tx.send(SinkMessage(source_id)); c is what a monitor
\* kept in call becomes
RefreshSendWith(c) ==
    /\ refresh.pc = "send"
    /\ Publish("refresh", Ordered[refresh.idx])
    /\ refresh' = [refresh EXCEPT !.pc = RefreshAfterNode(refresh.idx).pc,
                                  !.idx = RefreshAfterNode(refresh.idx).idx,
                                  !.stored = NoStore]
    /\ call' = c
    /\ UNCHANGED <<conf, now, cache, sweeper, memoFile, memoUds, paths, sinkLog, due>>

RefreshSend == RefreshSendWith(call)

\* a sleep with no floor: an interval <= 0 is taken as 0
RefreshSleep_noFloor ==
    /\ refresh.pc = "sleep"
    /\ LET d == refresh.sleep_until - now
           sleep_interval == IF d <= 0 THEN 0 ELSE d
       IN refresh' = [refresh EXCEPT !.pc = "asleep", !.wake = now + sleep_interval,
                                     !.sleep_until = I64Max]
    /\ UNCHANGED <<call, conf, now, cache, sweeper, bus, memoFile, memoUds, paths,
                   sinkLog, pubMon, due>>

\* sleep_until_next_token_fetch_check: the interval is computed, the task sleeps
RefreshSleep ==
    /\ refresh.pc = "sleep"
    /\ LET d == refresh.sleep_until - now
           sleep_interval == IF d <= 0 THEN 1 ELSE d
       IN refresh' = [refresh EXCEPT !.pc = "asleep", !.wake = now + sleep_interval,
                                     !.sleep_until = I64Max]
    /\ UNCHANGED <<call, conf, now, cache, sweeper, bus, memoFile, memoUds, paths,
                   sinkLog, pubMon, due>>

\* the sleep is over: the next cycle starts with sleep_until = i64::MAX
RefreshWake ==
    /\ refresh.pc = "asleep"
    /\ now >= refresh.wake
    /\ refresh' = [refresh EXCEPT !.pc = "visit", !.idx = 1, !.sleep_until = I64Max,
                                  !.wake = 0]
    /\ UNCHANGED <<call, conf, now, cache, sweeper, bus, memoFile, memoUds, paths,
                   sinkLog, pubMon, due>>

-----------------------------------------------------------------------------
(* sources/executor/token_invalidate.rs: the task of loop_check_token_exp *)

RECURSIVE SweepTokens(_, _, _, _, _, _, _)
\* the inner for loop of a node: [sleep_until, should_remove_token, overflow].
\* exp_unix_ts - 1 overflows for a record with exp_unix_ts = 0: a build with overflow
\* checks (overflowChecks) panics there, a build without them wraps
SweepTokens(source_id, tokens, i, c, t, sleep_until, overflowChecks) ==
    IF i > Len(tokens)
    THEN [sleep_until |-> sleep_until, should_remove_token |-> FALSE, overflow |-> FALSE]
    ELSE LET opt == TokenCacheGet(c, source_id, tokens[i].id)
             su == IF opt.some
                   THEN (IF should_remove_at(opt.v) <= sleep_until
                         THEN should_remove_at(opt.v) ELSE sleep_until)
                   ELSE t + SourceMargin(source_id)
         IN IF overflowChecks /\ opt.some /\ SubOverflows(opt.v)
            THEN [sleep_until |-> su, should_remove_token |-> FALSE, overflow |-> TRUE]
            ELSE IF su <= t
            THEN [sleep_until |-> su, should_remove_token |-> TRUE, overflow |-> FALSE]
            ELSE SweepTokens(source_id, tokens, i + 1, c, t, su, overflowChecks)

SweepAfterNode(idx) ==
    IF idx < NodeCount THEN [pc |-> "visit", idx |-> idx + 1]
    ELSE [pc |-> "sleep", idx |-> 1]

\* the declared tokens of source_id whose record satisfies t >= expiry - 1
DueToEvict(source_id, c, t) ==
    {<<source_id, tf.id>> : tf \in
        {x \in Range(Sources[source_id].tokens) :
            /\ TokenCacheGet(c, source_id, x.id).some
            /\ t >= TokenCacheGet(c, source_id, x.id).v.exp_unix_ts - 1}}

\* a node is visited: decide should_remove_token
SweepVisit ==
    /\ sweeper.pc = "visit"
    /\ LET source_id == Ordered[sweeper.idx]
           nxt == SweepAfterNode(sweeper.idx)
       IN /\ \E r \in {SweepTokens(source_id, Sources[source_id].tokens, 1, cache, now,
                                    sweeper.sleep_until, TRUE),
                        SweepTokens(source_id, Sources[source_id].tokens, 1, cache, now,
                                    sweeper.sleep_until, FALSE)} :
               sweeper' =
                IF r.overflow
                THEN [pc |-> "panicked", idx |-> 1, sleep_until |-> I64Max, wake |-> 0]
                ELSE IF r.should_remove_token
                THEN [sweeper EXCEPT !.pc = "invalidate", !.sleep_until = r.sleep_until]
                ELSE [sweeper EXCEPT !.pc = nxt.pc, !.idx = nxt.idx,
                                     !.sleep_until = r.sleep_until]
          /\ due' = (IF sweeper.idx = 1 THEN {} ELSE due) \cup DueToEvict(source_id, cache, now)
    /\ UNCHANGED <<call, conf, now, cache, refresh, bus, memoFile, memoUds, paths,
                   sinkLog, pubMon>>

\* invalidate_tokens_by_source_id; c is what a monitor kept in call becomes
SweepInvalidateWith(c) ==
    /\ sweeper.pc = "invalidate"
    /\ LET source_id == Ordered[sweeper.idx] IN
       \/ /\ InvalidateOverflows(cache, source_id)
          /\ sweeper' = [pc |-> "panicked", idx |-> 1, sleep_until |-> I64Max, wake |-> 0]
          /\ cache' = cache
       \/ /\ cache' = InvalidateExpired(cache, source_id, now).cache
          /\ sweeper' = [sweeper EXCEPT !.pc = "send"]
    /\ call' = c
    /\ UNCHANGED <<conf, now, refresh, bus, memoFile, memoUds, paths,
                   sinkLog, pubMon, due>>

SweepInvalidate == SweepInvalidateWith(call)

\* sink active propagation: tx.send(SinkMessage(source_id))
SweepSendWith(c) ==
    /\ sweeper.pc = "send"
    /\ Publish("sweeper", Ordered[sweeper.idx])
    /\ sweeper' = [sweeper EXCEPT !.pc = SweepAfterNode(sweeper.idx).pc,
                                  !.idx = SweepAfterNode(sweeper.idx).idx]
    /\ call' = c
    /\ UNCHANGED <<conf, now, cache, refresh, memoFile, memoUds, paths, sinkLog, due>>

SweepSend == SweepSendWith(call)

\* sleep_until_next_token_exp_check: no sleep when the interval is <= 0
SweepSleep ==
    /\ sweeper.pc = "sleep"
    /\ LET d == sweeper.sleep_until - now
           sleep_interval == IF d <= 0 THEN 0 ELSE d
       IN sweeper' = IF sleep_interval > 0
                     THEN [sweeper EXCEPT !.pc = "asleep", !.idx = 1,
                                          !.wake = now + sleep_interval,
                                          !.sleep_until = I64Max]
                     ELSE [sweeper EXCEPT !.pc = "visit", !.idx = 1,
                                          !.sleep_until = I64Max]
    /\ due' = {}
    /\ UNCHANGED <<call, conf, now, cache, refresh, bus, memoFile, memoUds, paths,
                   sinkLog, pubMon>>

SweepWake ==
    /\ sweeper.pc = "asleep"
    /\ now >= sweeper.wake
    /\ sweeper' = [sweeper EXCEPT !.pc = "visit", !.idx = 1, !.sleep_until = I64Max,
                                  !.wake = 0]
    /\ UNCHANGED <<call, conf, now, cache, refresh, bus, memoFile, memoUds, paths,
                   sinkLog, pubMon, due>>

-----------------------------------------------------------------------------
(* the clock *)

Tick ==
    /\ now < MaxTime
    /\ now' = now + 1
    /\ UNCHANGED <<call, conf, cache, refresh, sweeper, bus, memoFile, memoUds,
                   paths, sinkLog, pubMon, due>>

-----------------------------------------------------------------------------
(* the running system: main() has spawned both loops, the sinks subscribe next *)

\* no pure algorithm is under check while the system runs
IdleCall == [op |-> "idle"]

SysInit(c, keys) ==
    /\ conf = [sources |-> c.sources, sinks |-> c.sinks, values |-> c.values,
               ordered |-> build(c.sources, keys).ordered]
    /\ now = 0
    /\ cache = EmptyMap
    /\ refresh = [pc |-> "visit", idx |-> 1, sleep_until |-> I64Max, attempt |-> 0,
                  fetched |-> NoFetch, stored |-> NoStore, wake |-> 0]
    /\ sweeper = [pc |-> "visit", idx |-> 1, sleep_until |-> I64Max, wake |-> 0]
    /\ bus = [r \in Receivers |-> [subscribed |-> FALSE, q |-> <<>>, lagged |-> FALSE]]
    /\ memoFile = EmptyMap
    /\ memoUds = EmptyMap
    /\ paths = [p \in {k.path : k \in c.sinks} |-> None]
    /\ sinkLog = [k \in {x.sink_id : x \in c.sinks} |->
                    [rec |-> None, wrote |-> FALSE, twice |-> FALSE]]
    /\ pubMon = [refresh |-> "none", sweeper |-> "none"]
    /\ due = {}

\* the two loops over the chained sources; no file or uds sink is configured
Init == SysInit(ConfChain, <<"B", "A">>) /\ call = IdleCall
Next ==
    \/ Tick
    \/ RefreshVisit \/ RefreshFetchOk \/ RefreshFetchErr \/ RefreshStore \/ RefreshSend
    \/ RefreshSleep \/ RefreshWake
    \/ SweepVisit \/ SweepInvalidate \/ SweepSend \/ SweepSleep \/ SweepWake
Spec == Init /\ [][Next]_vars

\* the two loops and the sink consumers over one source
InitSink == SysInit(ConfSinks, <<"B">>) /\ call = IdleCall
NextSink ==
    \/ Next
    \/ StartActiveSinks
    \/ FileRecvLagged \/ FileWorker \/ UdsRecvLagged \/ UdsWorker
SpecSink == InitSink /\ [][NextSink]_vars

\* the two loops and the file consumer over two sources; call keeps whether the file
\* receiver has lost a message to overflow
InitBus == SysInit(ConfBus, <<"A", "B">>) /\ call = [op |-> "bus", dropped |-> FALSE]

\* Sender::send finds the file receiver's buffer full
FileOverflows == bus.file.subscribed /\ Len(bus.file.q) >= BusCap

BusRefreshSend ==
    call.op = "bus" /\ RefreshSendWith([call EXCEPT !.dropped = @ \/ FileOverflows])
BusSweepSend ==
    call.op = "bus" /\ SweepSendWith([call EXCEPT !.dropped = @ \/ FileOverflows])

NextBus ==
    \/ Tick
    \/ RefreshVisit \/ RefreshFetchOk \/ RefreshFetchErr \/ RefreshStore \/ BusRefreshSend
    \/ RefreshSleep \/ RefreshWake
    \/ SweepVisit \/ SweepInvalidate \/ BusSweepSend \/ SweepSleep \/ SweepWake
    \/ StartActiveSinks
    \/ FileRecvLagged \/ FileWorker
SpecBus == InitBus /\ [][NextBus]_vars

-----------------------------------------------------------------------------
(* SourceDag::build on arbitrary source maps *)

\* sources of a map, and a name no map holds
DagIds == {"A", "B", "C"}
DagNames == DagIds \cup {"X"}
\* longest inputs list
MaxInputs == 2

InputOpts ==
    {None} \cup {Some(q) : q \in UNION {[1..n -> DagNames] : n \in 0..MaxInputs}}
DagSourceMaps == UNION {[S -> [inputs : InputOpts]] : S \in SUBSET DagIds}

InitDag ==
    /\ SysInit(ConfChain, <<"B", "A">>)
    /\ \E srcs \in DagSourceMaps : \E keys \in Orders(DOMAIN srcs) :
          call = [op |-> "build", srcs |-> srcs, keys |-> keys, done |-> FALSE,
                  out |-> [ok |-> FALSE, err |-> "", ordered |-> <<>>]]

DagBuild ==
    /\ call.op = "build" /\ ~call.done
    /\ call' = [call EXCEPT !.done = TRUE, !.out = build(call.srcs, call.keys)]
    /\ UNCHANGED sysVars

NextDag == DagBuild
SpecDag == InitDag /\ [][NextDag]_vars

-----------------------------------------------------------------------------
(* config/proc_validator.rs validate_retry, the RetrySettings of the refresh *)
(* loop, resilience/retry.rs run_with_retry                                  *)

\* settings.retry as a configuration file can give it
RetryConfigs ==
    {None} \cup
    {Some([attempts |-> a, base_delay_ms |-> b, max_delay_ms |-> m]) :
        a \in {None, Some(0), Some(1), Some(2), Some(4)},
        b \in {None, Some(100), Some(300), Some(1500)},
        m \in {None, Some(150), Some(400), Some(2000)}}

\* validate_retry: the errors it pushes
validate_retry(retry) ==
    (IF retry.attempts.some /\ retry.attempts.v = 0
     THEN <<"attempts must be > 0">> ELSE <<>>)
    \o (IF retry.base_delay_ms.some /\ retry.max_delay_ms.some
           /\ retry.max_delay_ms.v < retry.base_delay_ms.v
        THEN <<"max_delay_ms must be >= base_delay_ms">> ELSE <<>>)

\* what an invocation of the operation can return
OpErrors == {"e1", "e2"}

InitRetry ==
    /\ SysInit(ConfChain, <<"B", "A">>)
    /\ \E rc \in RetryConfigs :
          call = [op |-> "retry", pc |-> "config", cfg |-> rc,
                  settings |-> [attempts |-> 0, base_delay_ms |-> 0, max_delay_ms |-> 0],
                  attempt |-> 0, delay |-> 0, outcomes |-> <<>>, slept |-> <<>>,
                  result |-> ""]

\* validate_settings: `if let Some(retry) = &settings.retry { validate_retry(..) }`;
\* validate_service_config panics when any error was pushed
CfgValidate ==
    /\ call.op = "retry" /\ call.pc = "config"
    /\ call' = [call EXCEPT !.pc = IF call.cfg.some /\ validate_retry(call.cfg.v) # <<>>
                                  THEN "rejected" ELSE "accepted"]
    /\ UNCHANGED sysVars

\* loop_refrech_tokens: "prepare retry policies"
RetryBuild ==
    /\ call.op = "retry" /\ call.pc = "accepted"
    /\ call' = [call EXCEPT !.pc = "built", !.settings = RetrySettingsOf(call.cfg)]
    /\ UNCHANGED sysVars

\* run_with_retry is entered: delay = base_delay_ms, the for loop starts at attempt 1;
\* with attempts = 0 the loop body never runs and unreachable!() panics
RetryStart ==
    /\ call.op = "retry" /\ call.pc = "built"
    /\ call' = IF call.settings.attempts >= 1
               THEN [call EXCEPT !.pc = "running", !.attempt = 1,
                                 !.delay = call.settings.base_delay_ms]
               ELSE [call EXCEPT !.pc = "panicked"]
    /\ UNCHANGED sysVars

\* operation() returned Ok(value)
RetryOpOk ==
    /\ call.op = "retry" /\ call.pc = "running"
    /\ call' = [call EXCEPT !.pc = "done", !.outcomes = Append(@, "ok"),
                            !.result = "ok"]
    /\ UNCHANGED sysVars

\* operation() returned Err(e) on what the loop takes for an attempt short of the last
\* while it is the last one's turn too
RetryOpErr_oneMore ==
    /\ call.op = "retry" /\ call.pc = "running"
    /\ \E e \in OpErrors :
          call' = IF call.attempt <= call.settings.attempts
                  THEN [call EXCEPT !.outcomes = Append(@, e),
                                    !.slept = Append(@, call.delay),
                                    !.delay = Min(call.delay * 2, call.settings.max_delay_ms),
                                    !.attempt = @ + 1]
                  ELSE [call EXCEPT !.pc = "done", !.outcomes = Append(@, e),
                                    !.result = e]
    /\ UNCHANGED sysVars

\* operation() returned Err(e): sleep(delay) and double while attempt < attempts,
\* else return Err(e)
RetryOpErr ==
    /\ call.op = "retry" /\ call.pc = "running"
    /\ \E e \in OpErrors :
          call' = IF call.attempt < call.settings.attempts
                  THEN [call EXCEPT !.outcomes = Append(@, e),
                                    !.slept = Append(@, call.delay),
                                    !.delay = Min(call.delay * 2, call.settings.max_delay_ms),
                                    !.attempt = @ + 1]
                  ELSE [call EXCEPT !.pc = "done", !.outcomes = Append(@, e),
                                    !.result = e]
    /\ UNCHANGED sysVars

NextRetry == CfgValidate \/ RetryBuild \/ RetryStart \/ RetryOpOk \/ RetryOpErr
SpecRetry == InitRetry /\ [][NextRetry]_vars

-----------------------------------------------------------------------------
(* cache/token_cache.rs on arbitrary caches *)

\* longest input of TokenCache::set
MaxRecs == 2

CacheSourceIds == {"A", "B"}
\* records as TokenContext::new makes them
CacheRecords(ids) ==
    {TokenContextNew(id, v, 3, 1) : id \in ids, v \in {"p", "q"}}
CacheSourceMaps ==
    UNION {{m \in [T -> CacheRecords(T)] : \A t \in T : m[t].id = t} :
              T \in SUBSET {"t1", "t2"}}
Caches == UNION {[S -> CacheSourceMaps] : S \in SUBSET CacheSourceIds}
CacheInputs == UNION {[1..n -> CacheRecords({"t1", "t2", "t3"})] : n \in 0..MaxRecs}

InitCache ==
    /\ SysInit(ConfChain, <<"B", "A">>)
    /\ \E c \in Caches : \E sid \in CacheSourceIds : \E recs \in CacheInputs :
          call = [op |-> "set", before |-> c, source_id |-> sid, recs |-> recs,
                  done |-> FALSE, after |-> c, updated |-> <<>>,
                  twice |-> FALSE, again |-> c]

CacheSet ==
    /\ call.op = "set" /\ ~call.done
    /\ LET r == TokenCacheSet(call.before, call.source_id, call.recs)
       IN call' = [call EXCEPT !.done = TRUE, !.after = r.cache, !.updated = r.updated]
    /\ UNCHANGED sysVars

\* the same TokenCache::set once more, on the cache the first call left
CacheSetAgain ==
    /\ call.op = "set" /\ call.done /\ ~call.twice
    /\ LET r == TokenCacheSet(call.after, call.source_id, call.recs)
       IN call' = [call EXCEPT !.twice = TRUE, !.again = r.cache]
    /\ UNCHANGED sysVars

NextCache == CacheSet \/ CacheSetAgain
SpecCache == InitCache /\ [][NextCache]_vars

-----------------------------------------------------------------------------
(* cache/token_cache.rs: invalidate_expired_tokens_by_source_id and get on arbitrary caches *)

EvictRecords(ids) ==
    {TokenContextNew(id, "p", e, 1) : id \in ids, e \in 0..MaxExp}
EvictSourceMaps ==
    UNION {{m \in [T -> EvictRecords(T)] : \A t \in T : m[t].id = t} :
              T \in SUBSET {"t1", "t2"}}
EvictCaches == UNION {[S -> EvictSourceMaps] : S \in SUBSET CacheSourceIds}

InitEvict ==
    /\ SysInit(ConfChain, <<"B", "A">>)
    /\ \E c \in EvictCaches : \E sid \in CacheSourceIds : \E t \in 0..MaxTime :
          call = [op |-> "invalidate", before |-> c, source_id |-> sid, t |-> t,
                  pc |-> "start", after |-> c, found |-> FALSE]

\* the call returns: the subtraction did not overflow, or it wrapped
EvictReturn ==
    /\ call.op = "invalidate" /\ call.pc = "start"
    /\ LET r == InvalidateExpired(call.before, call.source_id, call.t)
       IN call' = [call EXCEPT !.pc = "returned", !.after = r.cache, !.found = r.found]
    /\ UNCHANGED sysVars

\* the call panics inside retain() where the subtraction overflows and is checked
EvictPanic ==
    /\ call.op = "invalidate" /\ call.pc = "start"
    /\ InvalidateOverflows(call.before, call.source_id)
    /\ call' = [call EXCEPT !.pc = "panicked"]
    /\ UNCHANGED sysVars

NextEvict == EvictReturn \/ EvictPanic
SpecEvict == InitEvict /\ [][NextEvict]_vars

-----------------------------------------------------------------------------
(* cache/token_cache.rs: set, then get as time passes (tests/expiration_and_cache.rs) *)

\* records whose expiry lies ahead of the time 0 at which they are stored
GetRecords == {TokenContextNew(id, "p", e, 1) : id \in {"t1", "t2"}, e \in 1..MaxExp}
GetInputs == UNION {[1..n -> GetRecords] : n \in 0..MaxRecs}

InitGet ==
    /\ SysInit(ConfChain, <<"B", "A">>)
    /\ \E sid \in CacheSourceIds : \E recs \in GetInputs : \E tid \in {"t1", "t2"} :
          call = [op |-> "get", pc |-> "start", source_id |-> sid, recs |-> recs,
                  token_id |-> tid, t |-> 0, cache |-> EmptyMap, got |-> None]

\* TokenCache::set(source_id, recs) at time 0
GetStore ==
    /\ call.op = "get" /\ call.pc = "start"
    /\ call' = [call EXCEPT !.pc = "stored",
                            !.cache = TokenCacheSet(call.cache, call.source_id, call.recs).cache]
    /\ UNCHANGED sysVars

\* a second passes; nothing else touches the cache
GetElapse ==
    /\ call.op = "get" /\ call.pc = "stored" /\ call.t < MaxTime + 1
    /\ call' = [call EXCEPT !.t = call.t + 1]
    /\ UNCHANGED sysVars

\* TokenCache::get(source_id, token_id)
GetCall ==
    /\ call.op = "get" /\ call.pc = "stored"
    /\ call' = [call EXCEPT !.pc = "returned",
                            !.got = TokenCacheGet(call.cache, call.source_id, call.token_id)]
    /\ UNCHANGED sysVars

NextGet == GetStore \/ GetElapse \/ GetCall
SpecGet == InitGet /\ [][NextGet]_vars

-----------------------------------------------------------------------------
(* parser/parser.rs: parse_tokens on arbitrary responses *)

\* token fields the validator accepts, one of each shape
ParseFields ==
    {[id |-> "jwt_header", parent |-> "header", token_type |-> "jwt",
      exp_source |-> "self", exp_format |-> "unix", manual_ttl_seconds |-> 0],
     [id |-> "jwt_body", parent |-> "body", token_type |-> "jwt",
      exp_source |-> "self", exp_format |-> "unix", manual_ttl_seconds |-> 0],
     [id |-> "plain_header_exp", parent |-> "header", token_type |-> "plain_text",
      exp_source |-> "header_field", exp_format |-> "unix", manual_ttl_seconds |-> 0],
     [id |-> "plain_header_manual", parent |-> "header", token_type |-> "plain_text",
      exp_source |-> "manual", exp_format |-> "seconds", manual_ttl_seconds |-> 2],
     [id |-> "plain_json_exp", parent |-> "body", token_type |-> "plain_text",
      exp_source |-> "json_body_field", exp_format |-> "unix", manual_ttl_seconds |-> 0],
     [id |-> "plain_json_ttl", parent |-> "body", token_type |-> "plain_text",
      exp_source |-> "json_body_field", exp_format |-> "seconds", manual_ttl_seconds |-> 0]}

\* ParseConfig.tokens: one or two declared tokens with distinct ids
ParseConfigs ==
    {<<f>> : f \in ParseFields} \cup
    {p \in ParseFields \X ParseFields : p[1] # p[2]}

\* what a response holds for one declared token: whether the raw value is at its
\* pointer (the header, or a string under the body's key), and the unsigned integer
\* read for its expiry (the exp claim of a decodable jwt, the header, the body field)
ParseReadings ==
    [present : BOOLEAN, value : {"v"},
     exp : {None} \cup {Some(e) : e \in (0..MaxExp) \cup {WordModulus - 1}}]

\* a response: whether the body is valid JSON, and the readings
ParseResponses(tokens) ==
    [json_body : BOOLEAN, fields : [{tokens[i].id : i \in DOMAIN tokens} -> ParseReadings]]

\* get_plain_text_expiration up to exp_row_value_res
exp_row_value_res(tf, rd) ==
    IF tf.exp_source = "self" THEN None
    ELSE IF tf.exp_source = "manual" THEN Some(tf.manual_ttl_seconds)
    ELSE rd.exp

\* the expression `Utc::now().timestamp() as u64 + exp_row_value` overflows
SecondsOverflows(tf, rd, t) ==
    /\ tf.exp_format = "seconds"
    /\ exp_row_value_res(tf, rd).some
    /\ AsU64(t) + exp_row_value_res(tf, rd).v >= WordModulus

\* the match on token_type of parse_header_token / parse_body_token
token_expiration(tf, rd, t) ==
    IF tf.token_type = "jwt"
    THEN IF rd.exp.some THEN get_jwt_token_expiration([rd EXCEPT !.exp = rd.exp.v], t)
         ELSE None
    ELSE IF exp_row_value_res(tf, rd).some
         THEN get_plain_text_expiration(tf, [rd EXCEPT !.exp = exp_row_value_res(tf, rd).v], t)
         ELSE None

\* parse_header_token: a plain_text token asks for the JSON body before anything else
parse_header_token(tf, resp, t, safety_margin) ==
    LET rd == resp.fields[tf.id]
    IN IF ~rd.present THEN None
       ELSE IF tf.token_type = "plain_text" /\ ~resp.json_body THEN None
       ELSE LET expiration == token_expiration(tf, rd, t)
            IN IF expiration.some
               THEN Some(TokenContextNew(tf.id, rd.value, expiration.v, safety_margin))
               ELSE None

\* parse_body_token
parse_body_token(tf, resp, t, safety_margin) ==
    LET rd == resp.fields[tf.id]
    IN IF ~resp.json_body THEN None
       ELSE IF ~rd.present THEN None
       ELSE LET expiration == token_expiration(tf, rd, t)
            IN IF expiration.some
               THEN Some(TokenContextNew(tf.id, rd.value, expiration.v, safety_margin))
               ELSE None

\* the token reaches get_plain_text_expiration and the addition overflows there
TokenOverflows(tf, resp, t) ==
    /\ resp.fields[tf.id].present /\ resp.json_body
    /\ tf.token_type = "plain_text"
    /\ SecondsOverflows(tf, resp.fields[tf.id], t)

RECURSIVE parse_loop(_, _, _, _, _, _)
\* one of the two for loops of parse_tokens over the tokens of one parent
parse_loop(tokens, i, parent, resp, t, safety_margin) ==
    IF i > Len(tokens) THEN <<>>
    ELSE LET r == IF tokens[i].parent # parent THEN None
                  ELSE IF parent = "header"
                       THEN parse_header_token(tokens[i], resp, t, safety_margin)
                       ELSE parse_body_token(tokens[i], resp, t, safety_margin)
         IN (IF r.some THEN <<r.v>> ELSE <<>>) \o
            parse_loop(tokens, i + 1, parent, resp, t, safety_margin)

\* parse_tokens on a whole response
parse_tokens_resp(resp, tokens, safety_margin_settings, safety_margin_source, t) ==
    LET safety_margin == get_token_safety_margin_seconds(safety_margin_settings,
                                                         safety_margin_source)
    IN parse_loop(tokens, 1, "header", resp, t, safety_margin)
       \o parse_loop(tokens, 1, "body", resp, t, safety_margin)

InitParse ==
    /\ SysInit(ConfChain, <<"B", "A">>)
    /\ \E tokens \in ParseConfigs : \E resp \in ParseResponses(tokens) : \E t \in 0..MaxTime :
          call = [op |-> "parse", pc |-> "start", tokens |-> tokens, resp |-> resp,
                  t |-> t, out |-> <<>>]

\* parse_tokens returns: no addition overflowed, or it wrapped
ParseReturn ==
    /\ call.op = "parse" /\ call.pc = "start"
    /\ call' = [call EXCEPT !.pc = "returned",
                            !.out = parse_tokens_resp(call.resp, call.tokens, None, None, call.t)]
    /\ UNCHANGED sysVars

\* parse_tokens panics where the addition overflows and is checked
ParsePanic ==
    /\ call.op = "parse" /\ call.pc = "start"
    /\ \E i \in DOMAIN call.tokens : TokenOverflows(call.tokens[i], call.resp, call.t)
    /\ call' = [call EXCEPT !.pc = "panicked"]
    /\ UNCHANGED sysVars

NextParse == ParseReturn \/ ParsePanic
SpecParse == InitParse /\ [][NextParse]_vars

-----------------------------------------------------------------------------
(* cache/token_cache.rs: the RwLock around the cache, with one task in each of set,
   get, contains_source_id and invalidate_expired_tokens_by_source_id *)

LockSource == "A"
LockCaches == {EmptyMap} \cup {MapPut(EmptyMap, LockSource, m) : m \in CacheSourceMaps}

InitLock ==
    /\ SysInit(ConfChain, <<"B", "A">>)
    /\ \E c \in LockCaches : \E recs \in CacheInputs : \E t \in {0, MaxTime} :
          call = [op |-> "lock", inner |-> c, recs |-> recs, t |-> t,
                  set |-> [pc |-> "start", i |-> 1, before |-> c],
                  get |-> [pc |-> "start", mid |-> FALSE],
                  contains |-> [pc |-> "start", mid |-> FALSE],
                  evict |-> [pc |-> "start", mid |-> FALSE]]

\* a write guard is held
WriterHolds == call.set.pc \in {"guard", "apply"} \/ call.evict.pc = "guard"
\* a read guard is held
ReaderHolds == call.get.pc = "guard" \/ call.contains.pc = "guard"

\* set holds its guard and the map is neither as it found it nor as it will leave it
SetMidway ==
    /\ call.set.pc \in {"guard", "apply"}
    /\ call.inner # call.set.before
    /\ call.inner # TokenCacheSet(call.set.before, LockSource, call.recs).cache

\* set: `inner.write().await` is granted
SetAcquire ==
    /\ call.op = "lock" /\ call.set.pc = "start"
    /\ ~WriterHolds /\ ~ReaderHolds
    /\ call' = [call EXCEPT !.set.pc = "guard", !.set.before = call.inner]
    /\ UNCHANGED sysVars

\* set: guard.entry(source_id).or_default()
SetEntry ==
    /\ call.op = "lock" /\ call.set.pc = "guard"
    /\ call' = [call EXCEPT !.set.pc = "apply",
                            !.inner = IF LockSource \in DOMAIN call.inner THEN call.inner
                                      ELSE MapPut(call.inner, LockSource, EmptyMap)]
    /\ UNCHANGED sysVars

\* set: one turn of the for_each
SetApply ==
    /\ call.op = "lock" /\ call.set.pc = "apply" /\ call.set.i <= Len(call.recs)
    /\ LET token_context == call.recs[call.set.i]
       IN call' = [call EXCEPT !.set.i = call.set.i + 1,
                               !.inner = MapPut(call.inner, LockSource,
                                                MapPut(call.inner[LockSource],
                                                       token_context.id, token_context))]
    /\ UNCHANGED sysVars

\* set: the metrics gauge is set and the guard is dropped on return
SetRelease ==
    /\ call.op = "lock" /\ call.set.pc = "apply" /\ call.set.i > Len(call.recs)
    /\ call' = [call EXCEPT !.set.pc = "done"]
    /\ UNCHANGED sysVars

\* get is called and waits at `inner.read().await`
GetCalled ==
    /\ call.op = "lock" /\ call.get.pc = "start"
    /\ call' = [call EXCEPT !.get.pc = "wait"]
    /\ UNCHANGED sysVars

\* get: the read guard is granted while a write guard is held
GetAcquire_noWait ==
    /\ call.op = "lock" /\ call.get.pc = "wait"
    /\ call' = [call EXCEPT !.get.pc = "guard"]
    /\ UNCHANGED sysVars

\* get: the read guard is granted
GetAcquire ==
    /\ call.op = "lock" /\ call.get.pc = "wait"
    /\ ~WriterHolds
    /\ call' = [call EXCEPT !.get.pc = "guard"]
    /\ UNCHANGED sysVars

\* get: the lookup, then the guard is dropped
GetRead ==
    /\ call.op = "lock" /\ call.get.pc = "guard"
    /\ call' = [call EXCEPT !.get.pc = "done", !.get.mid = SetMidway]
    /\ UNCHANGED sysVars

ContainsCalled ==
    /\ call.op = "lock" /\ call.contains.pc = "start"
    /\ call' = [call EXCEPT !.contains.pc = "wait"]
    /\ UNCHANGED sysVars

ContainsAcquire ==
    /\ call.op = "lock" /\ call.contains.pc = "wait"
    /\ ~WriterHolds
    /\ call' = [call EXCEPT !.contains.pc = "guard"]
    /\ UNCHANGED sysVars

\* contains_source_id: contains_key, then the guard is dropped
ContainsRead ==
    /\ call.op = "lock" /\ call.contains.pc = "guard"
    /\ call' = [call EXCEPT !.contains.pc = "done", !.contains.mid = SetMidway]
    /\ UNCHANGED sysVars

EvictCalled ==
    /\ call.op = "lock" /\ call.evict.pc = "start"
    /\ call' = [call EXCEPT !.evict.pc = "wait"]
    /\ UNCHANGED sysVars

\* invalidate_expired_tokens_by_source_id: the write guard is granted
EvictAcquire ==
    /\ call.op = "lock" /\ call.evict.pc = "wait"
    /\ ~WriterHolds /\ ~ReaderHolds
    /\ call' = [call EXCEPT !.evict.pc = "guard"]
    /\ UNCHANGED sysVars

\* invalidate_expired_tokens_by_source_id: retain, then the guard is dropped
EvictRetain ==
    /\ call.op = "lock" /\ call.evict.pc = "guard"
    /\ call' = [call EXCEPT !.evict.pc = "done", !.evict.mid = SetMidway,
                            !.inner = InvalidateExpired(call.inner, LockSource, call.t).cache]
    /\ UNCHANGED sysVars

NextLock ==
    \/ SetAcquire \/ SetEntry \/ SetApply \/ SetRelease
    \/ GetCalled \/ GetAcquire \/ GetRead
    \/ ContainsCalled \/ ContainsAcquire \/ ContainsRead
    \/ EvictCalled \/ EvictAcquire \/ EvictRetain
SpecLock == InitLock /\ [][NextLock]_vars

-----------------------------------------------------------------------------
(* sources/fetch.rs: prepare_generic_source_value on a Ref *)

\* GenericSourceValue::Ref: the token read from the cache, the prefix mapped over it
prepare_generic_source_value(c, ref) ==
    LET token_context_opt == TokenCacheGet(c, ref.source, ref.id)
    IN IF ~token_context_opt.some THEN None
       ELSE Some(OptOr(IF ref.prefix.some
                       THEN Some(ref.prefix.v \o token_context_opt.v.id)
                       ELSE None,
                       Some(token_context_opt.v.value)).v)

RefRecords(ids) == {TokenContextNew(id, v, MaxExp, 1) : id \in ids, v \in {"abc", "xyz"}}
RefSourceMaps ==
    UNION {{m \in [T -> RefRecords(T)] : \A t \in T : m[t].id = t} : T \in SUBSET {"t", "u"}}
RefCaches == UNION {[S -> RefSourceMaps] : S \in SUBSET CacheSourceIds}
RefValues == [source : CacheSourceIds, id : {"t", "u"},
              prefix : {None, Some("Bearer "), Some("")}]

InitRef ==
    /\ SysInit(ConfChain, <<"B", "A">>)
    /\ \E c \in RefCaches : \E ref \in RefValues :
          call = [op |-> "ref", pc |-> "start", cache |-> c, ref |-> ref, out |-> None]

RefPrepare ==
    /\ call.op = "ref" /\ call.pc = "start"
    /\ call' = [call EXCEPT !.pc = "done",
                            !.out = prepare_generic_source_value(call.cache, call.ref)]
    /\ UNCHANGED sysVars

NextRef == RefPrepare
SpecRef == InitRef /\ [][NextRef]_vars

-----------------------------------------------------------------------------
(* sinks/sink_file.rs: start_file_sinks joins cleanup_resourses and sink_http_worker *)
(* in one task; tokio::fs::write and tokio::fs::remove_file run on the blocking pool *)

StopRecords(sid) ==
    UNION {{TokenContextNew(tf.id, v, MaxExp, SourceMargin(sid)) : v \in TokenValues(tf.id)} :
              tf \in Range(Sources[sid].tokens)}
\* what the two loops can have left in the cache, and sent, when the signal comes
StopSourceMaps(sid) == {EmptyMap} \cup {MapPut(EmptyMap, r.id, r) : r \in StopRecords(sid)}
StopCaches ==
    UNION {{c \in [S -> UNION {StopSourceMaps(s) : s \in S}] :
               \A s \in S : c[s] \in StopSourceMaps(s)} : S \in SUBSET SourceIds}
StopQueues == UNION {[1..n -> SourceIds] : n \in 0..BusCap}

InitStop ==
    /\ conf = [sources |-> ConfBus.sources, sinks |-> ConfBus.sinks,
               values |-> ConfBus.values,
               ordered |-> build(ConfBus.sources, <<"A", "B">>).ordered]
    /\ now = 0
    /\ cache \in StopCaches
    /\ refresh = [pc |-> "asleep", idx |-> 1, sleep_until |-> I64Max, attempt |-> 0,
                  fetched |-> NoFetch, stored |-> NoStore, wake |-> MaxTime]
    /\ sweeper = [pc |-> "asleep", idx |-> 1, sleep_until |-> I64Max, wake |-> MaxTime]
    /\ \E q \in StopQueues :
          bus = [r \in Receivers |->
                    [subscribed |-> r = "file", q |-> IF r = "file" THEN q ELSE <<>>,
                     lagged |-> FALSE]]
    /\ memoFile = EmptyMap
    /\ memoUds = EmptyMap
    /\ paths = [p \in {k.path : k \in ConfBus.sinks} |-> None]
    /\ sinkLog = [k \in {x.sink_id : x \in ConfBus.sinks} |->
                    [rec |-> None, wrote |-> FALSE, twice |-> FALSE]]
    /\ pubMon = [refresh |-> "none", sweeper |-> "none"]
    /\ due = {}
    /\ \E order \in Orders(ConfBus.sinks) :
          call = [op |-> "stop", signal |-> FALSE, exited |-> FALSE,
                  cleanup |-> [pc |-> "select", order |-> order, i |-> 1],
                  worker |-> [pc |-> "recv", order |-> <<>>, i |-> 1, source_id |-> ""],
                  write |-> None, remove |-> None]

\* the worker after the i-th sink of its for loop
StopWorkerAfter(w) ==
    IF w.i < Len(w.order) THEN [w EXCEPT !.pc = "loop", !.i = w.i + 1]
    ELSE [pc |-> "recv", order |-> <<>>, i |-> 1, source_id |-> ""]

\* sink_http_worker: rx.recv() returns a message, the for loop starts
StopWorkerRecv ==
    /\ call.op = "stop" /\ ~call.exited
    /\ call.worker.pc = "recv" /\ bus.file.q # <<>>
    /\ LET source_id == Head(bus.file.q) IN
       \E order \in Orders(FileSelected(source_id)) :
          call' = [call EXCEPT !.worker =
                      IF order = <<>> THEN call.worker
                      ELSE [pc |-> "loop", order |-> order, i |-> 1,
                            source_id |-> source_id]]
    /\ bus' = [bus EXCEPT !.file.q = Tail(@)]
    /\ UNCHANGED <<conf, now, cache, refresh, sweeper, memoFile, memoUds, paths,
                   sinkLog, pubMon, due>>

\* sink_http_worker: one sink of the for loop up to its tokio::fs::write, which is
\* handed to the blocking pool; a skipped token goes on to the next sink
StopWorkerSink ==
    /\ call.op = "stop" /\ ~call.exited
    /\ call.worker.pc = "loop"
    /\ LET cfg == call.worker.order[call.worker.i]
           st == SinkStep(cfg, call.worker.source_id, cache,
                          [memo |-> memoFile, paths |-> paths, log |-> sinkLog])
           skipped == st.log[cfg.sink_id].rec.some /\ ~st.log[cfg.sink_id].wrote
       IN /\ memoFile' = st.memo
          /\ sinkLog' = st.log
          /\ call' = IF skipped
                     THEN [call EXCEPT !.worker = StopWorkerAfter(call.worker)]
                     ELSE [call EXCEPT !.worker.pc = "write",
                                       !.write = Some([path |-> cfg.path,
                                                       value |-> st.paths[cfg.path].v])]
    /\ UNCHANGED <<conf, now, cache, refresh, sweeper, bus, memoUds, paths, pubMon, due>>

\* the blocking pool runs the write: the file is created with the value
StopWriteDone ==
    /\ call.op = "stop" /\ ~call.exited
    /\ call.write.some
    /\ paths' = [paths EXCEPT ![call.write.v.path] = Some(call.write.v.value)]
    /\ call' = [call EXCEPT !.write = None, !.worker = StopWorkerAfter(call.worker)]
    /\ UNCHANGED <<conf, now, cache, refresh, sweeper, bus, memoFile, memoUds,
                   sinkLog, pubMon, due>>

\* SIGINT or SIGTERM is delivered
StopSignal ==
    /\ call.op = "stop" /\ ~call.exited /\ ~call.signal
    /\ call' = [call EXCEPT !.signal = TRUE]
    /\ UNCHANGED sysVars

RECURSIVE NextToRemove(_, _, _)
\* cleanup_stored_tokens_after_cancelling: the next sink from the i-th on that is a file
\* sink whose path exists; 0 when the for loop ends
NextToRemove(order, i, p) ==
    IF i > Len(order) THEN 0
    ELSE IF order[i].sink_type = "file" /\ p[order[i].path].some THEN i
    ELSE NextToRemove(order, i + 1, p)

\* cleanup_resourses is polled: the select arm runs the for loop up to the next
\* fs::remove_file(path).await, or to std::process::exit(0)
StopCleanupRun ==
    /\ call.op = "stop" /\ ~call.exited /\ call.signal
    /\ call.cleanup.pc \in {"select", "loop"}
    /\ LET j == NextToRemove(call.cleanup.order, call.cleanup.i, paths)
       IN call' = IF j = 0
                  THEN [call EXCEPT !.cleanup.pc = "exited", !.exited = TRUE]
                  ELSE [call EXCEPT !.cleanup.pc = "remove", !.cleanup.i = j,
                                    !.remove = Some(call.cleanup.order[j].path)]
    /\ UNCHANGED sysVars

\* the blocking pool runs the remove: the file is gone (NotFound is passed over)
StopRemoveDone ==
    /\ call.op = "stop" /\ ~call.exited
    /\ call.remove.some
    /\ paths' = [paths EXCEPT ![call.remove.v] = None]
    /\ call' = [call EXCEPT !.remove = None, !.cleanup.pc = "loop",
                            !.cleanup.i = call.cleanup.i + 1]
    /\ UNCHANGED <<conf, now, cache, refresh, sweeper, bus, memoFile, memoUds,
                   sinkLog, pubMon, due>>

NextStop ==
    \/ StopWorkerRecv \/ StopWorkerSink \/ StopWriteDone
    \/ StopSignal \/ StopCleanupRun \/ StopRemoveDone
SpecStop == InitStop /\ [][NextStop]_vars

-----------------------------------------------------------------------------
(* sinks/sink_http.rs: render_http_response_axum behind handle_request_axum *)

HttpSource == "A"
HttpTokenIds == {"t", "u"}
\* chrono's NaiveDateTime spans fewer seconds than an i64: scaled with the word
ChronoMaxSecs == WordModulus \div 4

\* ResponseField: Token{id}, Expiration{format, id}, String{value}
ResponseFields ==
    [type : {"token"}, id : HttpTokenIds, format : {"none"}]
    \cup [type : {"expiration"}, id : HttpTokenIds, format : {"seconds", "rfc3339", "unix"}]
    \cup {[type |-> "string", id |-> "", format |-> "none"]}

\* HttpResponseBlock.headers / .body as the set of their fields, None as the empty set
HttpHeaders == {{}} \cup {{f} : f \in ResponseFields}
HttpBodies == {{}} \cup {{f, g} : f \in ResponseFields, g \in ResponseFields}

\* records as the parser can store them: expiries near, at 2^63 and at u64::MAX, and a
\* plain_text value that is no legal header value
HttpRecords(id) ==
    {TokenContextNew(id, "tok", e, 1) : e \in {1, MaxExp, WordModulus \div 2, WordModulus - 1}}
    \cup {TokenContextNew(id, "line\nfeed", MaxExp, 1)}
HttpSourceMaps ==
    UNION {{m \in [T -> UNION {HttpRecords(id) : id \in T}] : \A id \in T : m[id].id = id} :
              T \in SUBSET HttpTokenIds}
HttpCaches == {EmptyMap} \cup {MapPut(EmptyMap, HttpSource, m) : m \in HttpSourceMaps}

\* HeaderValue::from_str
HeaderValueOk(s) == s # "line\nfeed"

\* `token_context.token.exp_unix_ts as i64 - now` leaves the range of i64
RemainingOverflows(tc, t) == AsI64(tc.exp_unix_ts) - t < -(WordModulus \div 2)

\* Utc.timestamp_opt(exp as i64, 0).single() is None: the unwrap() panics
TimestampInvalid(tc) ==
    AsI64(tc.exp_unix_ts) > ChronoMaxSecs \/ AsI64(tc.exp_unix_ts) < -ChronoMaxSecs

\* render_field_to_json_axum / render_field_to_string_axum on one field: "ok", "err"
\* (the anyhow error that `?` returns) or "panic"
render_field(c, input, field, t, overflowChecks) ==
    LET token_context_opt == TokenCacheGet(c, input, field.id)
    IN CASE field.type = "string" -> "ok"
         [] field.type = "token" -> IF token_context_opt.some THEN "ok" ELSE "err"
         [] field.type = "expiration" ->
               IF ~token_context_opt.some THEN "err"
               ELSE IF overflowChecks /\ RemainingOverflows(token_context_opt.v, t)
               THEN "panic"
               ELSE IF field.format = "rfc3339" /\ TimestampInvalid(token_context_opt.v)
               THEN "panic"
               ELSE "ok"

\* the header fields the handler leaves out of the HeaderMap
HeadersDropped(c, input, headers) ==
    {f \in headers : f.type = "token" /\ TokenCacheGet(c, input, f.id).some
                     /\ ~HeaderValueOk(TokenCacheGet(c, input, f.id).v.value)}

\* render_http_response_axum and the match of handle_request_axum: the results the
\* iteration orders of the two maps allow, [status, dropped]
render_http_response_axum(c, sink, t, overflowChecks) ==
    LET bad(fields) == {render_field(c, sink.source_id, f, t, overflowChecks) : f \in fields}
                          \ {"ok"}
        status(o) == IF o = "err" THEN "404" ELSE "panic"
    IN IF ~contains_source_id(c, sink.source_id) THEN {[status |-> "404", dropped |-> {}]}
       ELSE IF bad(sink.headers) # {}
       THEN {[status |-> status(o), dropped |-> {}] : o \in bad(sink.headers)}
       ELSE IF bad(sink.body) # {}
       THEN {[status |-> status(o), dropped |-> {}] : o \in bad(sink.body)}
       ELSE {[status |-> "200", dropped |-> HeadersDropped(c, sink.source_id, sink.headers)]}

InitHttp ==
    /\ SysInit(ConfChain, <<"B", "A">>)
    /\ \E c \in HttpCaches : \E h \in HttpHeaders : \E b \in HttpBodies : \E t \in 0..MaxTime :
          call = [op |-> "http", pc |-> "start", cache |-> c, t |-> t,
                  sink |-> [source_id |-> HttpSource, headers |-> h, body |-> b],
                  status |-> "", dropped |-> {}]

\* GET on the sink's path, on a build with or without overflow checks
HttpGet ==
    /\ call.op = "http" /\ call.pc = "start"
    /\ \E overflowChecks \in BOOLEAN :
       \E r \in render_http_response_axum(call.cache, call.sink, call.t, overflowChecks) :
          call' = [call EXCEPT !.pc = "done", !.status = r.status, !.dropped = r.dropped]
    /\ UNCHANGED sysVars

NextHttp == HttpGet
SpecHttp == InitHttp /\ [][NextHttp]_vars

-----------------------------------------------------------------------------
(* config/proc_validator.rs: validate_service_config on a family of configurations; *)
(* an error is the pair of the place it is reported for and its message            *)

\* GenericSourceValue; a template is given by the contents of its {{ }} placeholders,
\* each split at '.'
Literal(value) == [kind |-> "literal", value |-> value, source |-> "", id |-> "",
                   placeholders |-> {}]
Ref(source, id) == [kind |-> "ref", value |-> "", source |-> source, id |-> id,
                    placeholders |-> {}]
Template(placeholders) == [kind |-> "template", value |-> "t", source |-> "", id |-> "",
                           placeholders |-> placeholders]

\* Path::is_absolute
IsAbsolute(path) == path \in {"/abs/path", "/"}

\* validate_generic_source_value
validate_generic_source_value(path, v) ==
    CASE v.kind = "literal" ->
            IF v.value = "" THEN {<<path, "literal value cannot be empty">>} ELSE {}
      [] v.kind = "ref" ->
            IF v.source = "" \/ v.id = ""
            THEN {<<path, "ref must include non-empty source and id">>} ELSE {}
      [] v.kind = "template" ->
            IF v.value = "" THEN {<<path, "template cannot be empty">>} ELSE {}

\* validate_template_placeholders: only the shape of each placeholder is looked at
validate_template_placeholders(v) ==
    {<<"template", "ambiguous placeholder">> : parts \in {p \in v.placeholders : Len(p) < 2}}
    \cup {<<"template", "invalid placeholder">> :
             parts \in {p \in v.placeholders : Len(p) >= 2 /\ (p[1] = "" \/ p[Len(p)] = "")}}

\* validate_expiration
validate_expiration(src_name, token) ==
    LET exp == token.expiration.v
    IN CASE exp.source = "self" ->
              IF token.token_type # "jwt"
              THEN {<<src_name, "source='self' only valid for token_type=jwt">>} ELSE {}
         [] exp.source = "manual" ->
              IF exp.manual_ttl_seconds = 0
              THEN {<<src_name, "manual_ttl_seconds must be > 0">>} ELSE {}
         [] OTHER -> {}

\* validate_token_field
validate_token_field(src_name, token) ==
    IF token.token_type = "jwt"
    THEN IF token.expiration.some
         THEN {<<src_name, "token_type=jwt must not declare expiration block">>} ELSE {}
    ELSE IF ~token.expiration.some
         THEN {<<src_name, "token_type=plain_text requires expiration block">>}
         ELSE validate_expiration(src_name, token)

\* validate_source_basics: headers, body, form, then the tokens
validate_source_basics(src_name, src_cfg) ==
    UNION {validate_generic_source_value(src_name, v) : v \in src_cfg.headers \cup src_cfg.body}
    \cup UNION {validate_template_placeholders(v) :
                   v \in {x \in src_cfg.headers \cup src_cfg.body : x.kind = "template"}}
    \cup (IF src_cfg.form.some
          THEN UNION {validate_generic_source_value(src_name, v) :
                         v \in {src_cfg.form.v.client_id, src_cfg.form.v.client_secret,
                                src_cfg.form.v.scope}}
          ELSE {})
    \cup (IF src_cfg.tokens = <<>>
          THEN {<<src_name, "parse.tokens must include at least one token field">>}
          ELSE {<<src_name, "duplicate token id">> :
                   i \in {j \in DOMAIN src_cfg.tokens :
                             \E k \in 1..(j - 1) : src_cfg.tokens[k].id = src_cfg.tokens[j].id}}
               \cup UNION {validate_token_field(src_name, src_cfg.tokens[i]) :
                              i \in DOMAIN src_cfg.tokens})

\* "Validate inter-source dependencies & inputs existence"
validate_inputs(src_name, src_cfg, sources) ==
    IF ~src_cfg.inputs.some THEN {}
    ELSE {<<src_name, "inputs references unknown source">> :
             dep \in {d \in Range(src_cfg.inputs.v) : d \notin DOMAIN sources}}
         \cup {<<src_name, "inputs must not reference itself">> :
                  dep \in {d \in Range(src_cfg.inputs.v) : d \in DOMAIN sources /\ d = src_name}}

\* "Validate inputs block exists when source field exists in source": ref_sources is
\* collected from request.headers and request.body
validate_ref_sources(src_name, src_cfg) ==
    LET ref_sources == {v.source : v \in {x \in src_cfg.headers \cup src_cfg.body :
                                             x.kind = "ref"}}
    IN {<<src_name, "inputs must be provided and contains">> :
           source \in {s \in ref_sources :
                          ~(src_cfg.inputs.some /\ s \in Range(src_cfg.inputs.v))}}

\* validate_sink_basics for a file or uds sink
validate_sink_basics(sink_name, sink, sources) ==
    IF sink.source_id \notin DOMAIN sources
    THEN {<<sink_name, "input does not reference any source">>}
    ELSE (IF sink.token_id \notin {sources[sink.source_id].tokens[i].id :
                                      i \in DOMAIN sources[sink.source_id].tokens}
          THEN {<<sink_name, "token_id not found in source">>} ELSE {})
         \cup (IF ~IsAbsolute(sink.path)
               THEN {<<sink_name, "path must be absolute">>} ELSE {})

\* every error validate_service_config pushes
ValidationErrors(cfg) ==
    (IF cfg.settings.retry.some
     THEN {<<"settings.retry", validate_retry(cfg.settings.retry.v)[i]>> :
              i \in DOMAIN validate_retry(cfg.settings.retry.v)}
     ELSE {})
    \cup (IF DOMAIN cfg.sources = {} THEN {<<"config", "'sources' is empty">>} ELSE {})
    \cup UNION {validate_source_basics(s, cfg.sources[s]) : s \in DOMAIN cfg.sources}
    \cup UNION {validate_inputs(s, cfg.sources[s], cfg.sources) : s \in DOMAIN cfg.sources}
    \cup UNION {validate_ref_sources(s, cfg.sources[s]) : s \in DOMAIN cfg.sources}
    \cup UNION {validate_sink_basics(k, cfg.sinks[k], cfg.sources) : k \in DOMAIN cfg.sinks}

\* a validator that returns at the first error it meets
validate_service_config_firstError(cfg) ==
    LET errors == ValidationErrors(cfg)
    IN [errors |-> IF errors = {} THEN {} ELSE {CHOOSE e \in errors : TRUE},
        panicked |-> errors # {}]

\* validate_service_config: Ok(()) or the panic with the joined errors
validate_service_config(cfg) ==
    LET errors == ValidationErrors(cfg)
    IN [errors |-> errors, panicked |-> errors # {}]

\* the values a request of the family holds
ValidPlaceholders ==
    {{}, {<<"A", "a1">>}, {<<"X", "a1">>}, {<<"A", "zz">>}, {<<"A", "body", "a1">>},
     {<<"a1">>}}
ValidValues ==
    {Literal("x")} \cup {Ref(s, id) : s \in {"A", "X"}, id \in {"a1", "zz"}}
    \cup {Template(p) : p \in ValidPlaceholders}

\* RequestConfig: one value in the headers, in the body or in the form, or none
ValidRequests ==
    {[headers |-> {}, body |-> {}, form |-> None]}
    \cup {[headers |-> {v}, body |-> {}, form |-> None] : v \in ValidValues}
    \cup {[headers |-> {}, body |-> {v}, form |-> None] : v \in ValidValues}
    \cup {[headers |-> {}, body |-> {},
           form |-> Some([client_id |-> v, client_secret |-> Literal("s"),
                          scope |-> Literal("c")])] : v \in ValidValues}

ValidJwt(id) == [id |-> id, token_type |-> "jwt", expiration |-> None]
ValidPlain(id, expiration) == [id |-> id, token_type |-> "plain_text", expiration |-> expiration]
ValidManual == Some([source |-> "manual", manual_ttl_seconds |-> 2])
ValidTokens ==
    {<<ValidJwt("b1")>>, <<ValidJwt("b1"), ValidJwt("b1")>>,
     <<ValidPlain("b1", ValidManual)>>, <<ValidPlain("b1", None)>>,
     <<ValidPlain("b1", None), ValidPlain("b1", None)>>}

ValidSinks ==
    [sink_type : {"file"}, source_id : {"B"}, token_id : {"b1", "missing_token"},
     path : {"/abs/path", "relative/path"}]

\* source A declares a1 and asks for nothing; source B and the sink vary
ValidConfigs ==
    {[settings |-> [retry |-> None],
      sources |-> [A |-> [inputs |-> None, headers |-> {}, body |-> {}, form |-> None,
                          tokens |-> <<ValidJwt("a1")>>],
                   B |-> [inputs |-> inp, headers |-> rq.headers, body |-> rq.body,
                          form |-> rq.form, tokens |-> toks]],
      sinks |-> [bad_file |-> sink]] :
        inp \in {None, Some(<<"A">>), Some(<<"X">>)}, rq \in ValidRequests,
        toks \in ValidTokens, sink \in ValidSinks}

InitValid ==
    /\ SysInit(ConfChain, <<"B", "A">>)
    /\ \E cfg \in ValidConfigs :
          call = [op |-> "validate", pc |-> "loaded", cfg |-> cfg, errors |-> {}]

\* parse_config calls validate_service_config on the loaded configuration
ValidateConfig ==
    /\ call.op = "validate" /\ call.pc = "loaded"
    /\ LET r == validate_service_config(call.cfg)
       IN call' = [call EXCEPT !.pc = IF r.panicked THEN "panicked" ELSE "valid",
                               !.errors = r.errors]
    /\ UNCHANGED sysVars

NextValid == ValidateConfig
SpecValid == InitValid /\ [][NextValid]_vars

-----------------------------------------------------------------------------
(* config/proc_loader.rs parse_config, then parser/parser.rs parse_tokens: the safety *)
(* margin a fetched record is made with                                               *)

\* what parse_config puts in settings.safety_margin_seconds when the file gives none
LoaderDefaultMargin == 60

\* safety_margin_seconds as written in the file, for settings and for the source
MarginOptions == {None, Some(1), Some(2), Some(20)}
\* expiries the issuer hands out, beyond every margin and within them
MarginExpiries == {5, 50, 70, 100}

InitMargin ==
    /\ SysInit(ConfChain, <<"B", "A">>)
    /\ \E g \in MarginOptions : \E s \in MarginOptions : \E e \in MarginExpiries :
       \E t \in 0..MaxTime :
          call = [op |-> "margin", pc |-> "file", settings |-> g, source |-> s,
                  exp |-> e, t |-> t, loaded |-> None, recs |-> <<>>]

\* parse_config: "Apply defaults"
MarginLoad ==
    /\ call.op = "margin" /\ call.pc = "file"
    /\ call' = [call EXCEPT !.pc = "loaded",
                            !.loaded = IF ~call.settings.some THEN Some(LoaderDefaultMargin)
                                       ELSE call.settings]
    /\ UNCHANGED sysVars

\* a fetch of the source: parse_tokens with the loaded settings value and the source's
MarginFetch ==
    /\ call.op = "margin" /\ call.pc = "loaded"
    /\ call' = [call EXCEPT !.pc = "fetched",
                            !.recs = parse_tokens([a1 |-> [present |-> TRUE, value |-> "v1",
                                                           exp |-> call.exp]],
                                                  <<TokA1>>, call.loaded, call.source, call.t)]
    /\ UNCHANGED sysVars

NextMargin == MarginLoad \/ MarginFetch
SpecMargin == InitMargin /\ [][NextMargin]_vars

-----------------------------------------------------------------------------
(* sinks/sink_file.rs, sinks/sink_uds.rs: the two consumers over two sources, with two *)
(* file sinks on one token; the refresh loop is about to store what it has fetched     *)

SinkFA2 == [sink_id |-> "fa2", sink_type |-> "file", source_id |-> "A",
            token_id |-> "a2", path |-> "/fa2"]
SinkUA == [sink_id |-> "ua", sink_type |-> "uds", source_id |-> "A",
           token_id |-> "a2", path |-> "/ua"]
SinkUB == [sink_id |-> "ub", sink_type |-> "uds", source_id |-> "B",
           token_id |-> "b2", path |-> "/ub"]
ConfMix == [sources |-> [A |-> SrcA2, B |-> SrcB2],
            sinks |-> {SinkFA, SinkFA2, SinkFB, SinkUA, SinkUB},
            values |-> [a2 |-> {"y1"}, b2 |-> {"x1"}]]

\* the record of a source's token fetched at time t
RecvRecord(sid, t) ==
    LET tf == ConfMix.sources[sid].tokens[1]
    IN TokenContextNew(tf.id, CHOOSE v \in ConfMix.values[tf.id] : TRUE,
                       t + tf.manual_ttl_seconds, SourceMargin(sid))
\* per source: never stored, emptied by the sweeper, or holding the record fetched at 0
RecvCaches ==
    {c \in UNION {[S -> {EmptyMap} \cup {MapPut(EmptyMap, RecvRecord(s, 0).id, RecvRecord(s, 0)) :
                                          s \in S}] : S \in SUBSET {"A", "B"}} :
        \A s \in DOMAIN c : c[s] = EmptyMap \/ DOMAIN c[s] = {RecvRecord(s, 0).id}}

InitRecv ==
    /\ conf = [sources |-> ConfMix.sources, sinks |-> ConfMix.sinks,
               values |-> ConfMix.values,
               ordered |-> build(ConfMix.sources, <<"A", "B">>).ordered]
    /\ now = 1
    /\ cache \in RecvCaches
    /\ \E i \in 1..2 : \E recs \in {<<>>, <<RecvRecord(<<"A", "B">>[i], 1)>>} :
          refresh = [pc |-> "store", idx |-> i, sleep_until |-> 1, attempt |-> 0,
                     fetched |-> [ok |-> TRUE, recs |-> recs], stored |-> NoStore,
                     wake |-> 0]
    /\ sweeper = [pc |-> "asleep", idx |-> 1, sleep_until |-> I64Max, wake |-> MaxTime]
    /\ \E qf \in StopQueues : \E qu \in StopQueues :
          bus = [r \in Receivers |->
                    [subscribed |-> TRUE, q |-> IF r = "file" THEN qf ELSE qu,
                     lagged |-> FALSE]]
    /\ memoFile = EmptyMap
    /\ memoUds = EmptyMap
    /\ paths = [p \in {k.path : k \in ConfMix.sinks} |-> None]
    /\ sinkLog = [k \in {x.sink_id : x \in ConfMix.sinks} |->
                    [rec |-> None, wrote |-> FALSE, twice |-> FALSE]]
    /\ pubMon = [refresh |-> "none", sweeper |-> "none"]
    /\ due = {}
    /\ call = IdleCall

NextRecv ==
    \/ RefreshStore \/ RefreshSend
    \/ FileRecvLagged \/ FileWorker \/ UdsRecvLagged \/ UdsWorker
SpecRecv == InitRecv /\ [][NextRecv]_vars

-----------------------------------------------------------------------------
(* sources/executor/token_invalidate.rs: passes of the sweeper over a cache that  *)
(* nothing else changes, at one instant; call keeps the cache of the start         *)

\* the records a declared token of source sid may have in the cache
SweepRecords(sid, tf) ==
    {TokenContextNew(tf.id, CHOOSE v \in ConfChain.values[tf.id] : TRUE, e,
                     get_token_safety_margin_seconds(Settings.safety_margin_seconds,
                                                     ConfChain.sources[sid].safety_margin_seconds)) :
        e \in 1..MaxExp}
\* the maps of source sid: each declared token absent or present
SweepSourceMaps(sid) ==
    LET toks == Range(ConfChain.sources[sid].tokens)
        recs == UNION {SweepRecords(sid, tf) : tf \in toks}
    IN UNION {{m \in [{tf.id : tf \in T} -> recs] : \A id \in DOMAIN m : m[id].id = id} :
                 T \in SUBSET toks}
SweepCaches ==
    {c \in [DOMAIN ConfChain.sources -> UNION {SweepSourceMaps(s) : s \in DOMAIN ConfChain.sources}] :
        \A s \in DOMAIN c : c[s] \in SweepSourceMaps(s)}

InitSweep ==
    /\ conf = [sources |-> ConfChain.sources, sinks |-> ConfChain.sinks,
               values |-> ConfChain.values,
               ordered |-> build(ConfChain.sources, <<"B", "A">>).ordered]
    /\ now \in 0..MaxTime
    /\ cache \in SweepCaches
    /\ refresh = [pc |-> "asleep", idx |-> 1, sleep_until |-> I64Max, attempt |-> 0,
                  fetched |-> NoFetch, stored |-> NoStore, wake |-> MaxTime]
    /\ sweeper = [pc |-> "visit", idx |-> 1, sleep_until |-> I64Max, wake |-> 0]
    /\ bus = [r \in Receivers |-> [subscribed |-> FALSE, q |-> <<>>, lagged |-> FALSE]]
    /\ memoFile = EmptyMap
    /\ memoUds = EmptyMap
    /\ paths = [p \in {} |-> None]
    /\ sinkLog = [k \in {} |-> None]
    /\ pubMon = [refresh |-> "none", sweeper |-> "none"]
    /\ due = {}
    /\ call = [op |-> "sweep", seen |-> cache]

NextSweep == SweepVisit \/ SweepInvalidate \/ SweepSend \/ SweepSleep
SpecSweep == InitSweep /\ [][NextSweep]_vars

-----------------------------------------------------------------------------
(* sources/executor/token_fetch.rs: the cycles of the refresh loop over two sources  *)
(* whose tokens carry their expiry; call keeps whether the cycle has fetched a source *)

SrcB1 == [inputs |-> None, safety_margin_seconds |-> Some(1),
          tokens |-> <<TokB1>>, refs |-> {}]
ConfCycle == [sources |-> [A |-> SrcA, B |-> SrcB1], sinks |-> {},
              values |-> [a1 |-> {"v1"}, b1 |-> {"w1"}]]

InitCycle == SysInit(ConfCycle, <<"A", "B">>) /\ call = [op |-> "cycle", fetched |-> FALSE]

\* the first visit of a cycle starts the record, a decision to fetch sets it
CycleCall ==
    [should_fetch \in BOOLEAN |->
        [call EXCEPT !.fetched = (IF refresh.idx = 1 THEN FALSE ELSE @) \/ should_fetch]]
CycleVisit == call.op = "cycle" /\ RefreshVisitWith(CycleCall)

NextCycle ==
    \/ Tick
    \/ CycleVisit \/ RefreshFetchOk \/ RefreshFetchErr \/ RefreshStore \/ RefreshSend
    \/ RefreshSleep \/ RefreshWake
    \/ SweepVisit \/ SweepInvalidate \/ SweepSend \/ SweepSleep \/ SweepWake
SpecCycle == InitCycle /\ [][NextCycle]_vars

-----------------------------------------------------------------------------
(* sources/executor/token_fetch.rs: the order of the visits within a cycle; call   *)
(* keeps which sources the cycle has visited, found due, and gone on to fetch      *)

InitOrder ==
    /\ SysInit(ConfChain, <<"B", "A">>)
    /\ call = [op |-> "order", visited |-> {}, found_due |-> {}, attempted |-> {}]

OrderCall ==
    LET source_id == Ordered[refresh.idx]
        before == IF refresh.idx = 1
                  THEN [call EXCEPT !.visited = {}, !.found_due = {}, !.attempted = {}]
                  ELSE call
    IN [should_fetch \in BOOLEAN |-> [before EXCEPT
           !.visited = @ \cup {source_id},
           !.found_due = @ \cup (IF DueToFetch(source_id) THEN {source_id} ELSE {}),
           !.attempted = @ \cup (IF should_fetch THEN {source_id} ELSE {})]]
OrderVisit == call.op = "order" /\ RefreshVisitWith(OrderCall)

NextOrder ==
    \/ Tick
    \/ OrderVisit \/ RefreshFetchOk \/ RefreshFetchErr \/ RefreshStore \/ RefreshSend
    \/ RefreshSleep \/ RefreshWake
    \/ SweepVisit \/ SweepInvalidate \/ SweepSend \/ SweepSleep \/ SweepWake
SpecOrder == InitOrder /\ [][NextOrder]_vars

-----------------------------------------------------------------------------
(* sources/fetch.rs, sources/executor/token_fetch.rs: fetch_tokens under run_with_retry; *)
(* call keeps the request configuration, the attempt and the requests sent               *)

\* render_template: each {{source.id}} is looked up; any other text stays as it is
render_template(c, placeholders) ==
    \A p \in placeholders : Len(p) = 2 => TokenCacheGet(c, p[1], p[2]).some
\* prepare_generic_source_value returns Ok
PrepareOk(c, v) ==
    CASE v.kind = "ref" -> prepare_generic_source_value(c, [source |-> v.source, id |-> v.id,
                                                            prefix |-> None]).some
      [] v.kind = "template" -> render_template(c, v.placeholders)
      [] OTHER -> TRUE
\* Source::fetch_tokens up to request.send(): the headers, then the body, each value
\* with `?`; req_cfg.form is not read
RequestBuilt(c, req_cfg) ==
    /\ \A v \in req_cfg.headers : PrepareOk(c, v)
    /\ \A v \in req_cfg.body : PrepareOk(c, v)

FetchValues ==
    {Literal("x"), Ref("A", "a1"), Template({<<"A", "a1">>}), Template({<<"A", "body", "a1">>})}
FetchRequests ==
    {[headers |-> {}, body |-> {}, form |-> None]}
    \cup {[headers |-> {v}, body |-> {}, form |-> None] : v \in FetchValues}
    \cup {[headers |-> {}, body |-> {v}, form |-> None] : v \in FetchValues}
    \cup {[headers |-> {}, body |-> {},
           form |-> Some([client_id |-> v, client_secret |-> Literal("s"),
                          scope |-> Literal("c")])] : v \in FetchValues}
FetchAttempts == 1..3

InitFetch ==
    /\ conf = [sources |-> ConfChain.sources, sinks |-> ConfChain.sinks,
               values |-> ConfChain.values,
               ordered |-> build(ConfChain.sources, <<"B", "A">>).ordered]
    /\ now = 0
    /\ cache \in SweepCaches
    /\ refresh = [pc |-> "fetch", idx |-> 2, sleep_until |-> 0, attempt |-> 1,
                  fetched |-> NoFetch, stored |-> NoStore, wake |-> 0]
    /\ sweeper = [pc |-> "asleep", idx |-> 1, sleep_until |-> I64Max, wake |-> MaxTime]
    /\ bus = [r \in Receivers |-> [subscribed |-> FALSE, q |-> <<>>, lagged |-> FALSE]]
    /\ memoFile = EmptyMap
    /\ memoUds = EmptyMap
    /\ paths = [p \in {} |-> None]
    /\ sinkLog = [k \in {} |-> None]
    /\ pubMon = [refresh |-> "none", sweeper |-> "none"]
    /\ due = {}
    /\ \E req \in FetchRequests : \E n \in FetchAttempts :
          call = [op |-> "fetch", pc |-> "build", request |-> req, attempts |-> n,
                  attempt |-> 1, sent |-> 0, seen |-> cache]

\* an attempt builds the request: a value that cannot be prepared ends the attempt
\* with Err before request.send()
FetchBuild ==
    /\ call.op = "fetch" /\ call.pc = "build"
    /\ call' = [call EXCEPT !.pc = IF RequestBuilt(cache, call.request)
                                   THEN "send" ELSE "failed"]
    /\ UNCHANGED sysVars
\* request.send(): the issuer answers 2xx with a body that parses, or the attempt fails
FetchSend ==
    /\ call.op = "fetch" /\ call.pc = "send"
    /\ \E outcome \in {"ok", "failed"} :
          call' = [call EXCEPT !.pc = outcome, !.sent = @ + 1]
    /\ UNCHANGED sysVars
\* run_with_retry: another attempt while attempt < attempts
FetchRetry ==
    /\ call.op = "fetch" /\ call.pc = "failed" /\ call.attempt < call.attempts
    /\ call' = [call EXCEPT !.pc = "build", !.attempt = @ + 1]
    /\ UNCHANGED sysVars
\* run_with_retry returns the last error
FetchGiveUp ==
    /\ call.op = "fetch" /\ call.pc = "failed" /\ ~(call.attempt < call.attempts)
    /\ call' = [call EXCEPT !.pc = "err"]
    /\ UNCHANGED sysVars

NextFetch == FetchBuild \/ FetchSend \/ FetchRetry \/ FetchGiveUp
SpecFetch == InitFetch /\ [][NextFetch]_vars

-----------------------------------------------------------------------------
(* sinks/sink_http.rs: render_http_response_axum field by field, each field with    *)
(* its own TokenCache::get, while the refresh loop stores and the sweeper evicts    *)

\* the record of (A, a1) in the cache when the request comes, and the one the
\* refresh loop has fetched
ServeOld == TokenContextNew("a1", "v0", 2, 1)
ServeNew == TokenContextNew("a1", "v1", MaxExp, 1)

\* the fields of the response block, all on the sink's token, in the order the maps
\* are iterated
ServeFieldSet ==
    [type : {"token"}, id : {"a1"}, format : {"none"}]
    \cup [type : {"expiration"}, id : {"a1"}, format : {"seconds", "rfc3339", "unix"}]
    \cup {[type |-> "string", id |-> "", format |-> "none"]}
ServeFields == [1..2 -> ServeFieldSet]

\* what a field renders from record tc at time t: the text and the number of the value
ServeValue(field, tc, t) ==
    CASE field.type = "string" -> [s |-> "value", n |-> 0]
      [] field.type = "token" -> [s |-> tc.value, n |-> 0]
      [] field.format = "seconds" -> [s |-> "", n |-> Max(0, AsI64(tc.exp_unix_ts) - t)]
      [] field.format = "rfc3339" -> [s |-> "rfc3339", n |-> AsI64(tc.exp_unix_ts)]
      [] OTHER -> [s |-> "", n |-> tc.exp_unix_ts]

InitServe ==
    /\ conf = [sources |-> ConfChain.sources, sinks |-> ConfChain.sinks,
               values |-> ConfChain.values,
               ordered |-> build(ConfChain.sources, <<"B", "A">>).ordered]
    /\ now = 1
    /\ cache = [A |-> MapPut(EmptyMap, "a1", ServeOld), B |-> EmptyMap]
    /\ \E pc \in {"store", "asleep"} :
          refresh = [pc |-> pc, idx |-> 1, sleep_until |-> 1, attempt |-> 0,
                     fetched |-> IF pc = "store" THEN [ok |-> TRUE, recs |-> <<ServeNew>>]
                                 ELSE NoFetch,
                     stored |-> NoStore, wake |-> MaxTime]
    /\ \E pc \in {"invalidate", "asleep"} :
          sweeper = [pc |-> pc, idx |-> 1, sleep_until |-> 1, wake |-> MaxTime]
    /\ bus = [r \in Receivers |-> [subscribed |-> FALSE, q |-> <<>>, lagged |-> FALSE]]
    /\ memoFile = EmptyMap
    /\ memoUds = EmptyMap
    /\ paths = [p \in {} |-> None]
    /\ sinkLog = [k \in {} |-> None]
    /\ pubMon = [refresh |-> "none", sweeper |-> "none"]
    /\ due = {}
    /\ \E fields \in ServeFields :
          call = [op |-> "serve", pc |-> "start", source_id |-> "A", fields |-> fields,
                  i |-> 1, out |-> <<>>, status |-> ""]

\* render_http_response_axum: contains_source_id
ServeContains ==
    /\ call.op = "serve" /\ call.pc = "start"
    /\ call' = IF contains_source_id(cache, call.source_id)
               THEN [call EXCEPT !.pc = "fields"]
               ELSE [call EXCEPT !.pc = "done", !.status = "404"]
    /\ UNCHANGED sysVars
\* render_field_to_string_axum / render_field_to_json_axum on the next field: one
\* TokenCache::get; Err ends the request with 404, the last field with 200
ServeField ==
    /\ call.op = "serve" /\ call.pc = "fields"
    /\ LET field == call.fields[call.i]
           token_context_opt == TokenCacheGet(cache, call.source_id, field.id)
       IN call' =
            IF field.type # "string" /\ ~token_context_opt.some
            THEN [call EXCEPT !.pc = "done", !.status = "404"]
            ELSE [call EXCEPT
                     !.out = Append(@, ServeValue(field, token_context_opt.v, now)),
                     !.i = @ + 1,
                     !.pc = IF call.i = Len(call.fields) THEN "done" ELSE "fields",
                     !.status = IF call.i = Len(call.fields) THEN "200" ELSE ""]
    /\ UNCHANGED sysVars

NextServe ==
    \/ ServeContains \/ ServeField
    \/ RefreshStore \/ RefreshSend \/ SweepInvalidate \/ SweepSend
SpecServe == InitServe /\ [][NextServe]_vars

-----------------------------------------------------------------------------
(* sources/executor/token_invalidate.rs, cache/token_cache.rs: the sweeper has read  *)
(* the deadlines of source B and is about to evict, the refresh loop is about to     *)
(* store what it fetched for B; call keeps which ids were stored before the eviction *)

\* what the refresh loop has fetched for B: a record for each declared token
RaceFetched ==
    {<<r1, r2>> : r1 \in SweepRecords("B", TokB1), r2 \in SweepRecords("B", TokB2)}

InitRace ==
    /\ conf = [sources |-> ConfChain.sources, sinks |-> ConfChain.sinks,
               values |-> ConfChain.values,
               ordered |-> build(ConfChain.sources, <<"B", "A">>).ordered]
    /\ now \in 0..(MaxTime - 1)
    /\ \E m \in SweepSourceMaps("B") : cache = [A |-> EmptyMap, B |-> m]
    /\ \E recs \in RaceFetched :
          refresh = [pc |-> "store", idx |-> 2, sleep_until |-> now, attempt |-> 0,
                     fetched |-> [ok |-> TRUE, recs |-> recs], stored |-> NoStore,
                     wake |-> 0]
    /\ sweeper = [pc |-> "invalidate", idx |-> 2, sleep_until |-> now, wake |-> 0]
    /\ bus = [r \in Receivers |-> [subscribed |-> FALSE, q |-> <<>>, lagged |-> FALSE]]
    /\ memoFile = EmptyMap
    /\ memoUds = EmptyMap
    /\ paths = [p \in {} |-> None]
    /\ sinkLog = [k \in {} |-> None]
    /\ pubMon = [refresh |-> "none", sweeper |-> "none"]
    /\ due = {}
    /\ call = [op |-> "race", evicted |-> FALSE, replaced |-> {}]

RaceInvalidate ==
    /\ call.op = "race"
    /\ SweepInvalidateWith([call EXCEPT
           !.evicted = TRUE,
           !.replaced = IF refresh.stored.ok THEN Range(refresh.stored.ids) ELSE {}])

NextRace == Tick \/ RefreshStore \/ RaceInvalidate
SpecRace == InitRace /\ [][NextRace]_vars

(* The agent with a long-lived token and a file sink, under fair scheduling     *)

\* a plain_text token whose manual ttl outlasts the clock of the model
TokL == [id |-> "l1", parent |-> "header", token_type |-> "plain_text",
         exp_source |-> "manual", exp_format |-> "seconds",
         manual_ttl_seconds |-> MaxTime + 4]
SrcL == [inputs |-> None, safety_margin_seconds |-> None, tokens |-> <<TokL>>, refs |-> {}]
SinkFL == [sink_id |-> "fl", sink_type |-> "file", source_id |-> "L",
           token_id |-> "l1", path |-> "/fl"]
ConfLate == [sources |-> [L |-> SrcL], sinks |-> {SinkFL}, values |-> [l1 |-> {"z1"}]]

InitLate == SysInit(ConfLate, <<"L">>) /\ call = IdleCall

NextLate ==
    \/ Tick
    \/ RefreshVisit \/ RefreshFetchOk \/ RefreshFetchErr \/ RefreshStore \/ RefreshSend
    \/ RefreshSleep \/ RefreshWake
    \/ SweepVisit \/ SweepSleep \/ SweepWake
    \/ StartActiveSinks
    \/ FileRecvLagged \/ FileWorker

\* every task of the runtime that can run is run, and timers fire: the three futures
\* of try_join! and the spawned loops and workers are all polled by the scheduler
FairLate ==
    /\ WF_vars(Tick)
    /\ WF_vars(RefreshVisit) /\ WF_vars(RefreshFetchOk \/ RefreshFetchErr)
    /\ WF_vars(RefreshStore) /\ WF_vars(RefreshSend)
    /\ WF_vars(RefreshSleep) /\ WF_vars(RefreshWake)
    /\ WF_vars(SweepVisit) /\ WF_vars(SweepSleep) /\ WF_vars(SweepWake)
    /\ WF_vars(StartActiveSinks)
    /\ WF_vars(FileRecvLagged) /\ WF_vars(FileWorker)
SpecLate == InitLate /\ [][NextLate]_vars /\ FairLate

-----------------------------------------------------------------------------
(* validate_settings, validate_source_basics: the bound of the safety margin,   *)
(* and a fetch under the margins they accept                                    *)

\* 60 * 60 * 24 * 365
MarginLimit == 31536000

\* "safety margin sane bounds": the one check both validators make of the margin
validate_safety_margin(name, s) ==
    IF s.some /\ s.v > MarginLimit
    THEN {<<name, "safety_margin_seconds is unreasonably large">>}
    ELSE {}

DueMargins == {None, Some(0), Some(1), Some(2), Some(MarginLimit), Some(MarginLimit + 1)}
DueExpiries == {2, 3, 50, 70}

InitDue ==
    /\ SysInit(ConfChain, <<"B", "A">>)
    /\ \E g \in DueMargins : \E s \in DueMargins : \E e \in DueExpiries :
       \E t \in 0..MaxTime :
          call = [op |-> "due", pc |-> "file", settings |-> g, source |-> s,
                  exp |-> e, t |-> t, loaded |-> None, recs |-> <<>>]

\* validate_service_config: the configuration is accepted when no error is pushed
DueValidate ==
    /\ call.op = "due" /\ call.pc = "file"
    /\ LET errors == validate_safety_margin("settings", call.settings)
                     \cup validate_safety_margin("A", call.source)
       IN call' = [call EXCEPT !.pc = IF errors = {} THEN "accepted" ELSE "rejected"]
    /\ UNCHANGED sysVars

\* parse_config: "Apply defaults"
DueLoad ==
    /\ call.op = "due" /\ call.pc = "accepted"
    /\ call' = [call EXCEPT !.pc = "loaded",
                            !.loaded = IF ~call.settings.some THEN Some(LoaderDefaultMargin)
                                       ELSE call.settings]
    /\ UNCHANGED sysVars

\* a fetch of the source: the records parse_tokens returns are the ones stored
DueFetch ==
    /\ call.op = "due" /\ call.pc = "loaded"
    /\ call' = [call EXCEPT !.pc = "fetched",
                            !.recs = parse_tokens([a1 |-> [present |-> TRUE, value |-> "v1",
                                                           exp |-> call.exp]],
                                                  <<TokA1>>, call.loaded, call.source, call.t)]
    /\ UNCHANGED sysVars

NextDue == DueValidate \/ DueLoad \/ DueFetch
SpecDue == InitDue /\ [][NextDue]_vars

-----------------------------------------------------------------------------
(* sinks/sink_file_cache.rs, sinks/sink_uds_cache.rs: the memo through its own  *)
(* operations, from SinkFileCache::new()                                        *)

MemoSources == {"A", "B", "C"}
MemoTokens == {"a1", "a2"}
MemoMetas == {[exp |-> e, path |-> "/f1"] : e \in 1..2}

InitMemo ==
    /\ SysInit(ConfChain, <<"B", "A">>)
    /\ call = [op |-> "memo", inner |-> EmptyMap, last |-> "new", before |-> EmptyMap,
               source_id |-> "A", token_id |-> "a1", meta |-> None, found |-> None]

\* SinkFileCache::set, SinkUdsCache::set
MemoSet ==
    /\ call.op = "memo"
    /\ \E s \in MemoSources : \E t \in MemoTokens : \E m \in MemoMetas :
          call' = [call EXCEPT !.inner = SinkMemoSet(call.inner, s, t, m),
                               !.last = "set", !.before = call.inner,
                               !.source_id = s, !.token_id = t, !.meta = Some(m),
                               !.found = None]
    /\ UNCHANGED sysVars

\* SinkFileCache::remove, SinkUdsCache::remove
MemoRemove ==
    /\ call.op = "memo"
    /\ \E s \in MemoSources : \E t \in MemoTokens :
          call' = [call EXCEPT !.inner = SinkMemoRemove(call.inner, s, t),
                               !.last = "remove", !.before = call.inner,
                               !.source_id = s, !.token_id = t, !.meta = None,
                               !.found = None]
    /\ UNCHANGED sysVars

\* get_by_source_id_and_token_id of the pair the last set or remove was given
MemoGet ==
    /\ call.op = "memo" /\ call.last \in {"set", "remove"}
    /\ call' = [call EXCEPT !.last = IF call.last = "set" THEN "set_get" ELSE "remove_get",
                            !.found = SinkMemoGet(call.inner, call.source_id,
                                                  call.token_id)]
    /\ UNCHANGED sysVars

NextMemo == MemoSet \/ MemoRemove \/ MemoGet
SpecMemo == InitMemo /\ [][NextMemo]_vars

-----------------------------------------------------------------------------
(* Properties of the running system *)

\* C1: a file or uds sink that processes two notifications at which the cached record
\* of its token has the same value and the same expiry writes its path at most once:
\* no sink ever writes a record it saw and wrote at the message before (SpecSink)
C1_SinkWritesOnce == \A k \in SinkIds : ~sinkLog[k].twice

\* C2: when a sweeper pass has completed, no declared token whose record satisfied
\* now >= expiry - 1 when the pass visited its source is still in the cache (Spec)
C2_DueEvictedAfterPass ==
    sweeper.pc = "sleep" => \A p \in due : ~TokenCacheGet(cache, p[1], p[2]).some

\* C3: a SourceChanged is published only after the cache write it announces has
\* completed: the refresh loop never sends while it holds fetched records that
\* TokenCache::set has not stored, the sweeper never sends before its invalidation
\* has returned (Spec)
C3_PublishAfterWrite == pubMon.refresh # "early" /\ pubMon.sweeper # "early"
\* both loops have published after a write of theirs
C3_Witness == pubMon.refresh = "afterWrite" /\ pubMon.sweeper = "afterWrite"

\* C4: every record in the cache has fetched_at_unix_ts <= exp_unix_ts and
\* fetched_at_unix_ts = max(0, exp_unix_ts - effective safety margin of its source) (Spec)
C4_RefetchAt ==
    \A s \in DOMAIN cache : \A t \in DOMAIN cache[s] :
        /\ cache[s][t].fetched_at_unix_ts <= cache[s][t].exp_unix_ts
        /\ cache[s][t].fetched_at_unix_ts =
              Max(0, cache[s][t].exp_unix_ts - SourceMargin(s))

-----------------------------------------------------------------------------
(* Properties of SourceDag::build (SpecDag) *)

\* place of id in an order; 0 when it is not in it
PosIn(order, id) ==
    IF \E i \in DOMAIN order : order[i] = id
    THEN CHOOSE i \in DOMAIN order : order[i] = id ELSE 0

\* the inputs of a source as a set
InputsOf(srcs, id) == IF srcs[id].inputs.some THEN Range(srcs[id].inputs.v) ELSE {}

RECURSIVE ReachIn(_, _, _)
\* the names reached from the set `from` along inputs in at most n steps
ReachIn(srcs, from, n) ==
    IF n = 0 THEN from
    ELSE ReachIn(srcs,
                 from \cup UNION {InputsOf(srcs, x) : x \in from \cap DOMAIN srcs},
                 n - 1)

\* the inputs relation has a cycle (a source that lists itself included)
HasCycle(srcs) ==
    \E id \in DOMAIN srcs :
        id \in ReachIn(srcs, InputsOf(srcs, id), Cardinality(DOMAIN srcs))
\* an inputs entry names a source the map does not hold
HasDangling(srcs) == \E id \in DOMAIN srcs : InputsOf(srcs, id) \ DOMAIN srcs # {}

\* C5: when build succeeds the returned order holds every source exactly once and
\* every source named in a source's inputs is earlier in the order than that source
C5_TopologicalOrder ==
    call.op = "build" /\ call.done /\ call.out.ok =>
        /\ Len(call.out.ordered) = Cardinality(DOMAIN call.srcs)
        /\ Range(call.out.ordered) = DOMAIN call.srcs
        /\ \A id \in DOMAIN call.srcs : \A dep \in InputsOf(call.srcs, id) :
              /\ PosIn(call.out.ordered, dep) > 0
              /\ PosIn(call.out.ordered, dep) < PosIn(call.out.ordered, id)
\* build succeeded on three sources where the map iterates a source before both of
\* the inputs it names
C5_Witness ==
    /\ call.op = "build" /\ call.done /\ call.out.ok
    /\ Cardinality(DOMAIN call.srcs) = 3
    /\ Cardinality(InputsOf(call.srcs, call.keys[1])) = 2
    /\ call.out.ordered[3] = call.keys[1]

\* C6: build returns an error when the inputs relation has a cycle or names a source
\* the map does not hold, and succeeds on every other source map
C6_ErrorIffCycleOrDangling ==
    call.op = "build" /\ call.done =>
        (~call.out.ok <=> (HasCycle(call.srcs) \/ HasDangling(call.srcs)))
\* build failed on a map with a dangling input and no cycle
C6_Witness ==
    /\ call.op = "build" /\ call.done /\ ~call.out.ok
    /\ HasDangling(call.srcs) /\ ~HasCycle(call.srcs)

-----------------------------------------------------------------------------
(* Properties of validate_retry, the RetrySettings built, run_with_retry (SpecRetry) *)

RECURSIVE Pow2(_)
Pow2(n) == IF n = 0 THEN 1 ELSE 2 * Pow2(n - 1)

RECURSIVE SumSeq(_)
SumSeq(q) == IF q = <<>> THEN 0 ELSE Head(q) + SumSeq(Tail(q))

\* C7: with attempts >= 1, run_with_retry invokes the operation exactly k times and
\* returns its value when it first succeeds on attempt k <= attempts, and invokes it
\* exactly `attempts` times and returns the last attempt's error when every attempt fails
C7_InvocationCount ==
    call.op = "retry" /\ call.pc = "done" /\ call.settings.attempts >= 1 =>
        LET n == Len(call.outcomes) IN
        /\ n >= 1 /\ n <= call.settings.attempts
        /\ \A i \in 1..(n - 1) : call.outcomes[i] # "ok"
        /\ call.outcomes[n] = "ok" => call.result = "ok"
        /\ call.outcomes[n] # "ok" =>
              n = call.settings.attempts /\ call.result = call.outcomes[n]
\* all four attempts failed, the last with another error than the first
C7_Witness ==
    /\ call.op = "retry" /\ call.pc = "done" /\ call.settings.attempts = 4
    /\ Len(call.outcomes) = 4
    /\ call.outcomes[1] = "e1" /\ call.outcomes[4] = "e2" /\ call.result = "e2"

\* C8: the sleep after the i-th failed attempt (i from 0) lasts
\* min(base_delay_ms * 2^i, max_delay_ms), no sleep follows the final attempt, and the
\* sleeps of a call sum to at most the sum of min(base * 2^i, max) over i < attempts - 1
C8_SleepSchedule ==
    call.op = "retry" /\ call.pc \in {"running", "done"} =>
        LET base == call.settings.base_delay_ms
            max == call.settings.max_delay_ms
            sched == [i \in 1..(call.settings.attempts - 1) |->
                         Min(base * Pow2(i - 1), max)]
        IN /\ Len(call.slept) <= call.settings.attempts - 1
           /\ \A i \in DOMAIN call.slept : call.slept[i] = sched[i]
           /\ call.pc = "done" => Len(call.slept) = Len(call.outcomes) - 1
           /\ SumSeq(call.slept) <= SumSeq(sched)

\* C9: for every configuration the validator accepts, the RetrySettings the refresh loop
\* builds have max_delay_ms >= base_delay_ms and attempts >= 1
C9_RetrySettingsInvariant ==
    call.op = "retry" /\ call.pc \in {"built", "running", "done"} =>
        /\ call.settings.max_delay_ms >= call.settings.base_delay_ms
        /\ call.settings.attempts >= 1

-----------------------------------------------------------------------------
(* Properties of TokenCache::set (SpecCache) *)

\* the record TokenCache::set leaves for id: the last one of the input with that id
LastWithId(recs, id) ==
    recs[CHOOSE i \in DOMAIN recs :
            recs[i].id = id /\ \A j \in DOMAIN recs : recs[j].id = id => j <= i]

\* C10: TokenCache::set(source_id, records) inserts or replaces exactly the records
\* whose ids occur in the input, leaves every other record of that source and every
\* record of every other source unchanged, and returns the ids of the input records
C10_SetFrame ==
    call.op = "set" /\ call.done =>
        LET ids == {call.recs[i].id : i \in DOMAIN call.recs}
            old == IF call.source_id \in DOMAIN call.before
                   THEN call.before[call.source_id] ELSE EmptyMap
            new == call.after[call.source_id]
        IN /\ call.updated = [i \in DOMAIN call.recs |-> call.recs[i].id]
           /\ DOMAIN call.after = DOMAIN call.before \cup {call.source_id}
           /\ \A s \in DOMAIN call.before \ {call.source_id} :
                 call.after[s] = call.before[s]
           /\ DOMAIN new = DOMAIN old \cup ids
           /\ \A t \in DOMAIN old \ ids : new[t] = old[t]
           /\ \A t \in ids : new[t] = LastWithId(call.recs, t)
\* a set that replaced one record of a source, inserted another, and left a third
\* record of that source and a record of another source in place
C10_Witness ==
    /\ call.op = "set" /\ call.done
    /\ call.source_id = "A"
    /\ DOMAIN call.before = {"A", "B"}
    /\ DOMAIN call.before["A"] = {"t1", "t2"}
    /\ DOMAIN call.before["B"] # {}
    /\ {call.recs[i].id : i \in DOMAIN call.recs} = {"t1", "t3"}
    /\ call.after["A"]["t1"] # call.before["A"]["t1"]

\* C11: a second TokenCache::set(source_id, records) with the same records (the empty
\* list included) leaves the cache state of that source as the first call left it
C11_SetIdempotent ==
    call.op = "set" /\ call.twice =>
        /\ call.source_id \in DOMAIN call.again
        /\ call.again[call.source_id] = call.after[call.source_id]
\* set was called twice with two records of one id on a source that held another
\* record of that id
C11_Witness ==
    /\ call.op = "set" /\ call.twice
    /\ Len(call.recs) = 2 /\ call.recs[1].id = call.recs[2].id
    /\ call.recs[1] # call.recs[2]
    /\ call.source_id \in DOMAIN call.before
    /\ call.recs[1].id \in DOMAIN call.before[call.source_id]
    /\ call.after[call.source_id] # call.before[call.source_id]
\* C12: invalidate_expired_tokens_by_source_id(source_id) completes, removes exactly the
\* records of that source with now >= expiry - 1, keeps every other record of that source
\* and of the other sources, and returns true iff the source was in the cache
C12_EvictExactly ==
    call.op = "invalidate" /\ call.pc # "start" =>
        /\ call.pc = "returned"
        /\ call.found = (call.source_id \in DOMAIN call.before)
        /\ DOMAIN call.after = DOMAIN call.before
        /\ \A sid \in DOMAIN call.before \ {call.source_id} :
              call.after[sid] = call.before[sid]
        /\ call.source_id \in DOMAIN call.before =>
              LET keep == {tid \in DOMAIN call.before[call.source_id] :
                              ~(call.t >= call.before[call.source_id][tid].exp_unix_ts - 1)}
              IN call.after[call.source_id] =
                     [tid \in keep |-> call.before[call.source_id][tid]]

\* C13: TokenCache::get never returns a record at a time that has reached the expiry
\* the record was stored with
C13_GetNotExpired ==
    call.op = "get" /\ call.pc = "returned" /\ call.got.some =>
        call.t < call.got.v.exp_unix_ts

\* C14: no file or uds sink writes to its path the value of a token whose expiry has
\* been reached: whenever a sink's worker writes a record, now < the record's expiry
C14_NoExpiredHandedOut ==
    [][\A k \in SinkIds :
          sinkLog'[k] # sinkLog[k] /\ sinkLog'[k].wrote =>
              now < sinkLog'[k].rec.v.exp_unix_ts]_vars

\* the raw value of a declared token is in the response
ValueDerivable(tf, resp) ==
    /\ resp.fields[tf.id].present
    /\ tf.parent = "body" => resp.json_body

\* the expiry of a declared token follows from the response: a decodable jwt that has
\* not expired, a manual ttl, or an unsigned integer at the header or body pointer
ExpiryDerivable(tf, resp, t) ==
    CASE tf.token_type = "jwt" ->
             resp.fields[tf.id].exp.some /\ resp.fields[tf.id].exp.v > t
      [] tf.exp_source = "manual" -> TRUE
      [] tf.exp_source = "header_field" -> resp.fields[tf.id].exp.some
      [] tf.exp_source = "json_body_field" ->
             resp.json_body /\ resp.fields[tf.id].exp.some

\* C17: parse_tokens returns Ok, and its output holds exactly the declared tokens whose
\* own value and expiry can be derived from the response, whatever the other tokens do
C17_ParseEachTokenAlone ==
    call.op = "parse" /\ call.pc # "start" =>
        /\ call.pc = "returned"
        /\ {call.out[i].id : i \in DOMAIN call.out} =
               {call.tokens[i].id : i \in {j \in DOMAIN call.tokens :
                   /\ ValueDerivable(call.tokens[j], call.resp)
                   /\ ExpiryDerivable(call.tokens[j], call.resp, call.t)}}

\* C18: parse_tokens emits no record whose expiry is <= the current time
C18_ParseNoExpired ==
    call.op = "parse" /\ call.pc = "returned" =>
        \A i \in DOMAIN call.out : call.out[i].exp_unix_ts > call.t

\* C15: no get, contains_source_id or invalidate_expired_tokens_by_source_id running
\* beside a TokenCache::set reads a cache in which some but not all of that call's
\* records have been applied
C15_SetAtomic ==
    call.op = "lock" =>
        /\ ~call.get.mid /\ ~call.contains.mid /\ ~call.evict.mid
        /\ call.set.pc = "done" /\ call.evict.pc \in {"start", "wait"} =>
              call.inner = TokenCacheSet(call.set.before, LockSource, call.recs).cache

\* a set of two records for different tokens has applied one of them while a get, a
\* contains_source_id and an eviction wait for the lock
C15_Witness ==
    /\ call.op = "lock"
    /\ Len(call.recs) = 2 /\ call.recs[1].id # call.recs[2].id
    /\ call.set.pc = "apply" /\ call.set.i = 2 /\ SetMidway
    /\ call.get.pc = "wait" /\ call.contains.pc = "wait" /\ call.evict.pc = "wait"

\* C16: resolving Ref{source, id, prefix} on a cached token yields the prefix followed
\* by the token's value, and the value alone when no prefix is given
C16_RefPrefixValue ==
    call.op = "ref" /\ call.pc = "done"
    /\ TokenCacheGet(call.cache, call.ref.source, call.ref.id).some =>
        LET value == TokenCacheGet(call.cache, call.ref.source, call.ref.id).v.value
        IN call.out = Some(IF call.ref.prefix.some THEN call.ref.prefix.v \o value ELSE value)

\* C19: when an attempt to fetch a due source fails, the refresh loop leaves the cache
\* as it is and tries again while attempts are left; after the last attempt it still
\* sends for that source, visits the next source in DAG order (or sleeps after the last
\* one) and starts a further cycle when it wakes: no failure ends the loop
C19_FailureGoesOn ==
    [][refresh' # refresh =>
          /\ refresh.pc = "fetch" /\ refresh'.pc # "store" =>
                /\ cache' = cache
                /\ refresh'.idx = refresh.idx
                /\ refresh'.pc = IF refresh.attempt < RetrySettingsOf(Settings.retry).attempts
                                 THEN "fetch" ELSE "send"
          /\ refresh.pc = "send" /\ ~refresh.stored.ok =>
                /\ cache' = cache
                /\ refresh.idx < NodeCount =>
                      refresh'.pc = "visit" /\ refresh'.idx = refresh.idx + 1
                /\ refresh.idx = NodeCount => refresh'.pc = "sleep"
          /\ refresh.pc = "sleep" => refresh'.pc = "asleep"
          /\ refresh.pc = "asleep" => refresh'.pc = "visit" /\ refresh'.idx = 1]_vars

\* the first source of the order was never stored, so its fetch failed on every attempt,
\* and the loop is visiting the second source
C19_Witness ==
    /\ refresh.pc = "visit" /\ refresh.idx = 2
    /\ Ordered[1] \notin DOMAIN cache

\* the path of every file sink holds what the cache holds for the sink's token
FilePathsCurrent(c, p) ==
    \A k \in {x \in SinkCfgs : x.sink_type = "file"} :
        LET token_context_opt == TokenCacheGet(c, k.source_id, k.token_id)
        IN IF token_context_opt.some
           THEN p[k.path] = Some(token_context_opt.v.value)
           ELSE p[k.path] \in {None, Some(TOKEN_VALUE_STUB)}

\* C20: once the file receiver has lost messages to overflow, when the file worker has
\* handled a later message and no message is left for it, the path of every file sink
\* holds the current cache record of its (source_id, token_id)
C20_ConvergesAfterDrop ==
    [][call.op = "bus" /\ call.dropped
       /\ bus.file.q # <<>> /\ bus'.file.q = Tail(bus.file.q) /\ bus'.file.q = <<>> =>
          FilePathsCurrent(cache', paths')]_vars

\* C21: when SIGINT or SIGTERM has been received and the process exits, no file-sink
\* path exists, whatever the file worker was doing beside the cleanup (SpecStop)
C21_NoFileAtExit ==
    call.op = "stop" /\ call.exited =>
        \A k \in {x \in SinkCfgs : x.sink_type = "file"} : ~paths[k.path].some

\* the Token and Expiration fields of a response block
HttpRefs(sink) == {f \in sink.headers \cup sink.body : f.type # "string"}

\* C22: a GET on an HTTP sink path returns 404 when the sink's source is not in the cache
\* or a Token or Expiration field of its response block names a token absent from the
\* cache, and returns 200 with every field rendered otherwise (SpecHttp)
C22_HttpStatus ==
    call.op = "http" /\ call.pc = "done" =>
        IF \/ ~contains_source_id(call.cache, call.sink.source_id)
           \/ \E f \in HttpRefs(call.sink) :
                 ~TokenCacheGet(call.cache, call.sink.source_id, f.id).some
        THEN call.status = "404"
        ELSE call.status = "200" /\ call.dropped = {}

\* the values of a source's request: headers, body and form
RequestValues(src_cfg) ==
    src_cfg.headers \cup src_cfg.body
    \cup (IF src_cfg.form.some
          THEN {src_cfg.form.v.client_id, src_cfg.form.v.client_secret, src_cfg.form.v.scope}
          ELSE {})

\* (source, token id) does not name a declared token of an existing source
Dangling(cfg, source, id) ==
    \/ source \notin DOMAIN cfg.sources
    \/ id \notin {cfg.sources[source].tokens[i].id : i \in DOMAIN cfg.sources[source].tokens}

\* C23: the validator rejects every configuration in which a Ref value or a
\* {{source.token_id}} placeholder names a source that does not exist or a token id
\* that the named source does not declare (SpecValid)
C23_RefsExist ==
    call.op = "validate" /\ call.pc # "loaded" =>
        \A s \in DOMAIN call.cfg.sources : \A v \in RequestValues(call.cfg.sources[s]) :
            /\ v.kind = "ref" /\ Dangling(call.cfg, v.source, v.id) => call.pc = "panicked"
            /\ v.kind = "template" =>
                  \A p \in {q \in v.placeholders : Len(q) >= 2} :
                      Dangling(call.cfg, p[1], p[Len(p)]) => call.pc = "panicked"

\* C24: the validator rejects every configuration in which a source uses a Ref in a
\* request header, body or form value whose source is not listed in that source's
\* inputs (SpecValid)
C24_RefSourceInInputs ==
    call.op = "validate" /\ call.pc # "loaded" =>
        \A s \in DOMAIN call.cfg.sources : \A v \in RequestValues(call.cfg.sources[s]) :
            v.kind = "ref"
            /\ ~(call.cfg.sources[s].inputs.some
                 /\ v.source \in Range(call.cfg.sources[s].inputs.v))
            => call.pc = "panicked"

\* the four violations of tests/examples/config_validation.rs, each on its own
HasDuplicateTokenId(cfg) ==
    \E i, j \in DOMAIN cfg.sources["B"].tokens :
        i < j /\ cfg.sources["B"].tokens[i].id = cfg.sources["B"].tokens[j].id
HasPlainWithoutExpiration(cfg) ==
    \E i \in DOMAIN cfg.sources["B"].tokens :
        /\ cfg.sources["B"].tokens[i].token_type = "plain_text"
        /\ ~cfg.sources["B"].tokens[i].expiration.some
HasRelativeSinkPath(cfg) == cfg.sinks["bad_file"].path = "relative/path"
HasUnknownSinkToken(cfg) == cfg.sinks["bad_file"].token_id = "missing_token"

C25_MarginPrecedence ==
    call.op = "margin" /\ call.pc = "fetched" =>
        LET margin == IF call.source.some THEN call.source.v
                      ELSE IF call.settings.some THEN call.settings.v
                      ELSE 10
        IN \A i \in DOMAIN call.recs :
              call.recs[i].fetched_at_unix_ts = Max(0, call.recs[i].exp_unix_ts - margin)

\* the step is a consumer of kind r taking message s off its queue and handling it
Handled(r, s) ==
    /\ bus[r].q # <<>> /\ Head(bus[r].q) = s
    /\ bus'[r].q = Tail(bus[r].q)

\* C26: a consumer that handles SourceChanged(s) leaves the sinks of its kind that
\* are bound to another source as they were: nothing is written to their paths and
\* nothing is read from the cache on their behalf
C26_OnlyOwnSource ==
    [][\A r \in Receivers : \A s \in SourceIds :
          Handled(r, s) =>
             \A k \in SinkCfgs :
                k.sink_type = r /\ k.source_id # s =>
                   /\ paths'[k.path] = paths[k.path]
                   /\ sinkLog'[k.sink_id] = sinkLog[k.sink_id]]_vars

WakeOf(sid, tf) ==
    LET opt == TokenCacheGet(cache, sid, tf.id)
    IN IF opt.some THEN opt.v.exp_unix_ts - 1 ELSE now + SourceMargin(sid)
WakeOfAll == UNION {{WakeOf(sid, tf) : tf \in Range(Sources[sid].tokens)} : sid \in SourceIds}

\* C29: when a pass of the sweeper ends, next_wake (sleep_until) is the least, over
\* the declared tokens of all sources, of expiry - 1 for a cached token and
\* now + margin for an absent one (for a pass that read the cache as it still is),
\* and it is not later than expiry - 1 of any token still cached
C29_NextWakeIsMin ==
    call.op = "sweep" /\ sweeper.pc = "sleep" =>
       /\ cache = call.seen =>
             /\ sweeper.sleep_until \in WakeOfAll
             /\ \A w \in WakeOfAll : sweeper.sleep_until <= w
       /\ \A sid \in SourceIds : \A tf \in Range(Sources[sid].tokens) :
             TokenCacheGet(cache, sid, tf.id).some =>
                sweeper.sleep_until <= TokenCacheGet(cache, sid, tf.id).v.exp_unix_ts - 1

\* C30: when the refresh loop visits a source it goes on to fetch it if and only if
\* one of the source's declared tokens is absent from the cache or has its refetch
\* time at or before now
C30_FetchIffDue ==
    [][refresh.pc = "visit" /\ refresh' # refresh =>
          (refresh'.pc = "fetch" <=> DueToFetch(Ordered[refresh.idx]))]_vars
\* a fetch has been decided for a source whose tokens are all cached, one of them due
C30_Witness ==
    /\ refresh.pc = "fetch" /\ refresh.attempt = 1
    /\ \A tf \in Range(Sources[Ordered[refresh.idx]].tokens) :
          TokenCacheGet(cache, Ordered[refresh.idx], tf.id).some


\* C31: the refresh loop sends SourceChanged(source_id) only for a source whose fetch
\* returned Ok and whose records it has written to the cache in this cycle; after a
\* fetch that failed on every attempt, and for a source that was not due, it sends
\* nothing
C31_SendOnlyAfterStore ==
    [][refresh.pc = "send" /\ refresh' # refresh => refresh.stored.ok]_vars


\* the cached records of the declared tokens of all sources
CachedDeclared ==
    UNION {{TokenCacheGet(cache, sid, tf.id).v :
               tf \in {x \in Range(Sources[sid].tokens) : TokenCacheGet(cache, sid, x.id).some}} :
              sid \in SourceIds}
\* the refresh loop goes to sleep
GoesToSleep == refresh.pc = "sleep" /\ refresh'.pc = "asleep"

C33_InputsVisitedFirst ==
    call.op = "order" =>
       /\ refresh.pc = "visit" /\ refresh.idx > 1 =>
             call.visited = {Ordered[j] : j \in 1..(refresh.idx - 1)}
       /\ refresh.pc = "fetch" =>
             \A inp \in InputsOf(Sources, Ordered[refresh.idx]) :
                /\ inp \in call.visited \ {Ordered[refresh.idx]}
                /\ inp \in call.found_due => inp \in call.attempted
\* B, whose request reads a token of A, is being fetched in a cycle that found A due
\* and attempted its fetch
C33_Witness ==
    /\ call.op = "order"
    /\ refresh.pc = "fetch" /\ Ordered[refresh.idx] = "B"
    /\ "A" \in InputsOf(Sources, "B")
    /\ "A" \in call.found_due /\ "A" \in call.attempted


\* a value of the request names a (source, token) that is not in cache c, by a Ref or
\* by a {{source.id}} placeholder
NamesAbsent(c, req_cfg) ==
    \E v \in RequestValues(req_cfg) :
       \/ v.kind = "ref" /\ ~TokenCacheGet(c, v.source, v.id).some
       \/ v.kind = "template" /\ \E p \in v.placeholders :
             Len(p) = 2 /\ ~TokenCacheGet(c, p[1], p[2]).some

\* C34: a fetch whose request names, by a Ref or a template placeholder, a token that
\* is not in the cache sends no HTTP request, ends with an error only after the
\* configured number of attempts, never with Ok, and leaves the cache as it was
C34_AbsentRefFailsUnsent ==
    call.op = "fetch" /\ NamesAbsent(cache, call.request) =>
       /\ call.sent = 0
       /\ call.pc # "ok"
       /\ call.pc = "err" => call.attempt = call.attempts
       /\ cache = call.seen


\* C35: a 200 response of an HTTP sink is rendered from one record: there is a record
\* the cache held for the sink's token during the request from which the token value
\* and every expiration field of the response come, whatever the refresh loop and the
\* sweeper do meanwhile
C35_OneRecordPerResponse ==
    call.op = "serve" /\ call.status = "200" =>
       \E tc \in {ServeOld, ServeNew} :
          \A i \in DOMAIN call.fields :
             call.out[i] = ServeValue(call.fields[i], tc, now)


\* C36: the sweeper's eviction of a source removes only records that are due to evict
\* at the moment of the removal (now >= expiry - 1), whether or not the refresh loop
\* has replaced the source's records since the sweeper read their deadlines; every
\* other record of the source stays as it is
C36_EvictsOnlyDue ==
    [][call.op = "race" /\ sweeper.pc = "invalidate" /\ sweeper' # sweeper =>
          LET source_id == Ordered[sweeper.idx]
          IN \A tid \in DOMAIN cache[source_id] :
                IF now >= cache[source_id][tid].exp_unix_ts - 1
                THEN TRUE
                ELSE /\ tid \in DOMAIN cache'[source_id]
                     /\ cache'[source_id][tid] = cache[source_id][tid]]_vars
\* the eviction came after the refresh loop had stored new records for the source, and
\* a stored record that is not due is still in the cache
C36_Witness ==
    /\ call.op = "race" /\ call.evicted
    /\ \E tid \in call.replaced :
          /\ tid \in DOMAIN cache["B"]
          /\ now < cache["B"][tid].exp_unix_ts - 1
    /\ \E tid \in call.replaced : tid \notin DOMAIN cache["B"]


\* either loop sends a SourceChanged
LoopSends ==
    \/ refresh.pc = "send" /\ refresh' # refresh
    \/ sweeper.pc = "send" /\ sweeper' # sweeper

\* C37: when the refresh loop or the sweeper sends a SourceChanged, the consumer of
\* every sink kind that is configured has subscribed to the bus
C37_SubscribedBeforeSend ==
    [][LoopSends => \A r \in Receivers :
                       (\E k \in SinkCfgs : k.sink_type = r) => bus[r].subscribed]_vars


\* the records a fetch of source L can store: one for each time of the fetch
LateRecords ==
    {TokenContextNew("l1", "z1", t + TokL.manual_ttl_seconds,
                     get_token_safety_margin_seconds(Settings.safety_margin_seconds,
                                                     SrcL.safety_margin_seconds)) :
        t \in 0..MaxTime}
LateHolds(tc) == TokenCacheGet(cache, "L", "l1") = Some(tc)
LateWritten(tc) == paths["/fl"] = Some(tc.value)

C39_RefetchBeforeEviction ==
    call.op = "due" /\ call.pc = "fetched" =>
        \A i \in DOMAIN call.recs :
            call.recs[i].fetched_at_unix_ts <= call.recs[i].exp_unix_ts - 1

\* C40: SinkFileCache::set(source_id, token_id, meta) followed by
\* get_by_source_id_and_token_id(source_id, token_id) returns meta, and the memo
\* entries of the other token ids of that source are as they were before the set;
\* SinkUdsCache is the same code (SpecMemo)
C40_SetThenGet ==
    call.op = "memo" /\ call.last = "set_get" =>
        /\ call.found = call.meta
        /\ \A t \in MemoTokens \ {call.token_id} :
              SinkMemoGet(call.inner, call.source_id, t)
                  = SinkMemoGet(call.before, call.source_id, t)

====
